---- MODULE Spec2Model ----
(***************************************************************************)
(* Trade Dashboard: the Gemini prediction cache (exact-match cache plus    *)
(* similarity fallback log, src/lib/cache/gemini-cache-redis.ts) and the   *)
(* orchestration of POST /api/ai-prediction                                *)
(* (src/app/api/ai-prediction/route.ts).                                   *)
(*                                                                         *)
(* Numbers are fixed point: indicator values are integers in thousandths   *)
(* (4523 is 4.523), Date.now() is an integer number of milliseconds,       *)
(* scores are integers scaled by Scale (1.0 is 1000000).                   *)
(***************************************************************************)
EXTENDS Integers, Sequences, FiniteSets, TLC

\* ------------------------------------------------------------------ bounds
\* number of 1 ms clock steps a behaviour may take after the start
MaxShortTicks == 1
\* number of (TTL - 1 ms) clock steps a behaviour may take
MaxLongTicks == 1
\* number of requests a behaviour may make
MaxRequests == 2
\* positions per varied indicator of the snapshots that are hashed on their own
MaxOffset == 3
\* entries of the fallback log getBestMatchingPrediction is applied to
MaxCandidates == 3
\* requests the AIPrediction component issues
MaxFetches == 4
\* calls of one loop of generateAIComments whose outcome differs from the rest
MaxFew == 1

\* ------------------------------------------------------- program constants
None == "none"

CACHE_PREFIX == "gemini:prediction:"
FALLBACK_PREFIX == "gemini:fallback:"
TTL_SECONDS == 24 * 60 * 60
TTL_MS == TTL_SECONDS * 1000
\* cleanupFallbackKeys keeps the last 10 fallback keys
KeepLast == 10
\* maxAgeHours of calculateRecencyScore, in milliseconds
MaxAgeMs == 24 * 60 * 60 * 1000

GEMINI_MODELS == {"gemini-2.5-flash", "gemini-2.5-flash-lite", "gemini-3-flash-preview"}
DEFAULT_GEMINI_MODEL == "gemini-2.5-flash"
VALID_MODEL_NAMES == GEMINI_MODELS

Procs == {"p1", "p2"}

\* ---------------------------------------------------------------- numbers
\* 1.0 as a fixed-point score
Scale == 1000 * 1000

Abs(x) == IF x < 0 THEN -x ELSE x
Max2(a, b) == IF a > b THEN a ELSE b
Min2(a, b) == IF a < b THEN a ELSE b
SetMax(S) == CHOOSE x \in S : \A y \in S : y <= x
SetMin(S) == CHOOSE x \in S : \A y \in S : x <= y

RECURSIVE Pow10(_)
Pow10(n) == IF n = 0 THEN 1 ELSE 10 * Pow10(n - 1)

\* largest r in lo..hi with r * r <= n (Math.sqrt, truncated)
RECURSIVE SqrtSearch(_, _, _)
SqrtSearch(n, lo, hi) ==
  IF lo >= hi THEN lo
  ELSE LET mid == (lo + hi + 1) \div 2
       IN IF mid * mid <= n THEN SqrtSearch(n, mid, hi)
          ELSE SqrtSearch(n, lo, mid - 1)

ISqrt(n) == SqrtSearch(n, 0, 46340)

\* Taylor terms of exp(-f/1000), f in 0..999, scaled by Scale
RECURSIVE ExpSeries(_, _, _, _)
ExpSeries(f, k, term, acc) ==
  IF term = 0 \/ k > 12 THEN acc
  ELSE LET t == (term * f) \div (1000 * k)
       IN ExpSeries(f, k + 1, t, IF k % 2 = 1 THEN acc - t ELSE acc + t)

\* multiply a Scale-d value by exp(-1), n times
RECURSIVE TimesInvE(_, _)
TimesInvE(v, n) ==
  IF n = 0 \/ v = 0 THEN v
  ELSE TimesInvE(((v \div 1000) * 367879) \div 1000
                   + ((v % 1000) * 367879) \div Scale, n - 1)

\* Math.exp(-d) for a distance d given in thousandths, scaled by Scale
ExpNeg(d) == TimesInvE(ExpSeries(d % 1000, 1, Scale, Scale), d \div 1000)

\* ------------------------------------------------------------- snapshots
\* DashboardData.indicators: indicator name -> value (in thousandths)
IndicatorNames ==
  {"us10yYield", "dxy", "highYieldSpread", "m2MoneySupply", "crudeOil",
   "copperGoldRatio", "pmi", "putCallRatio", "bitcoin"}

SnapA ==
  [us10yYield |-> 4523, dxy |-> 104970, highYieldSpread |-> 3120,
   m2MoneySupply |-> 21500400, crudeOil |-> 71230, copperGoldRatio |-> 1853,
   pmi |-> 48700, putCallRatio |-> 16420, bitcoin |-> 95100000]

\* differs from SnapA below every rounding step
SnapA2 ==
  [SnapA EXCEPT !.us10yYield = 4524, !.dxy = 104960, !.bitcoin = 94900000]

SnapB ==
  [SnapA EXCEPT !.us10yYield = 4700, !.putCallRatio = 18200,
                !.bitcoin = 96400000]

\* a body whose indicators lack bitcoin
SnapBad == [n \in IndicatorNames \ {"bitcoin"} |-> SnapA[n]]

\* the bodies whose indicators lack one of the indicators hashData reads
BadSnapshots ==
  {[n \in IndicatorNames \ {missing} |-> SnapA[n]] : missing \in IndicatorNames}

Snapshots == {SnapA, SnapA2, SnapB, SnapBad}

\* snapshots on both sides of the rounding boundaries: us10yYield around
\* 4.525, m2MoneySupply around 21500.5 and 21501.5, bitcoin from 94500 in
\* quarters of its step of 500, each in 0..MaxOffset positions
HashSnapshot(i, j, k) ==
  [SnapA EXCEPT !.us10yYield = 4521 + 2 * i,
                !.m2MoneySupply = 21500400 + 300 * j,
                !.bitcoin = 94500000 + 250000 * k]

HashSnapshots ==
  {HashSnapshot(i, j, k) : i \in 0..MaxOffset, j \in 0..MaxOffset, k \in 0..MaxOffset}

\* the log earlier instances left behind is full
SeedCount == KeepLast

\* the market as earlier instances saw it, k = 1, 2, ...
HistSnapshot(k) ==
  [SnapA EXCEPT !.us10yYield = 4400 + 10 * k, !.putCallRatio = 15000 + 100 * k]

\* --------------------------------------------------------- fingerprinting
\* Number.prototype.toFixed(n) of a non-negative value: the decimal numeral
\* with n fraction digits nearest to the value
toFixed(v, n) ==
  [digits |-> (v + Pow10(3 - n) \div 2) \div Pow10(3 - n), decimals |-> n]

\* a variant of parseFloat that stops at the decimal point, as parseInt does
parseFloatWhole(num) == (num.digits \div Pow10(num.decimals)) * 1000

\* parseFloat of such a numeral, in thousandths
parseFloat(num) == num.digits * Pow10(3 - num.decimals)

\* Math.round(x / 500) * 500 for x in thousandths, result in thousandths
RoundTo500(v) == ((v + 250000) \div 500000) * 500000

HasAllIndicators(data) == IndicatorNames \subseteq DOMAIN data

\* a variant of Rounded that writes bitcoin without rounding it to 500
RoundedRawBitcoin(data) ==
  [us10y  |-> toFixed(data["us10yYield"], 2),
   dxy    |-> toFixed(data["dxy"], 1),
   spread |-> toFixed(data["highYieldSpread"], 1),
   m2     |-> toFixed(data["m2MoneySupply"], 0),
   oil    |-> toFixed(data["crudeOil"], 1),
   ratio  |-> toFixed(data["copperGoldRatio"], 2),
   pmi    |-> toFixed(data["pmi"], 1),
   vix    |-> toFixed(data["putCallRatio"], 1),
   btc    |-> toFixed(data["bitcoin"], 0)]

\* the object `rounded` of hashData: every field a decimal numeral
Rounded(data) ==
  [us10y  |-> toFixed(data["us10yYield"], 2),
   dxy    |-> toFixed(data["dxy"], 1),
   spread |-> toFixed(data["highYieldSpread"], 1),
   m2     |-> toFixed(data["m2MoneySupply"], 0),
   oil    |-> toFixed(data["crudeOil"], 1),
   ratio  |-> toFixed(data["copperGoldRatio"], 2),
   pmi    |-> toFixed(data["pmi"], 1),
   vix    |-> toFixed(data["putCallRatio"], 1),
   btc    |-> toFixed(RoundTo500(data["bitcoin"]), 0)]

\* JSON texts are interned: a text is represented by the position of the
\* object it encodes in the list of the objects that get encoded, so two
\* texts are equal exactly when the objects agree field by field
StringTable ==
  <<Rounded(SnapA), Rounded(SnapA2), Rounded(SnapB)>>
    \o [k \in 1..SeedCount |-> Rounded(HistSnapshot(k))]
    \o [n \in 1..((MaxOffset + 1) * (MaxOffset + 1) * (MaxOffset + 1)) |->
         Rounded(HashSnapshot((n - 1) % (MaxOffset + 1),
                              ((n - 1) \div (MaxOffset + 1)) % (MaxOffset + 1),
                              (n - 1) \div ((MaxOffset + 1) * (MaxOffset + 1))))]

\* JSON.stringify of an object with a fixed key order
JSONStringify(obj) ==
  CHOOSE i \in 1..Len(StringTable) :
    /\ StringTable[i] = obj
    /\ \A j \in 1..(i - 1) : StringTable[j] # obj

\* JSON.parse of such a text
JSONParse(text) == StringTable[text]

\* hashData: the JSON text of the rounded values
hashData(data) == JSONStringify(Rounded(data))

HashKeys == {"us10y", "dxy", "spread", "m2", "oil", "ratio", "pmi", "vix", "btc"}

\* parseHash: numeric value of every field of a hash, in thousandths
parseHash(h) ==
  LET parsed == JSONParse(h)
  IN [us10y  |-> parseFloat(parsed.us10y),
      dxy    |-> parseFloat(parsed.dxy),
      spread |-> parseFloat(parsed.spread),
      m2     |-> parseFloat(parsed.m2),
      oil    |-> parseFloat(parsed.oil),
      ratio  |-> parseFloat(parsed.ratio),
      pmi    |-> parseFloat(parsed.pmi),
      vix    |-> parseFloat(parsed.vix),
      btc    |-> parseFloat(parsed.btc)]

\* ---------------------------------------------------------------- scoring
\* minThresholds of calculateSimilarityHybrid, in thousandths
minThresholds ==
  [us10y |-> 160, dxy |-> 1000, spread |-> 25000, m2 |-> 100000,
   oil |-> 1500, ratio |-> 50, pmi |-> 150, vix |-> 900, btc |-> 1000000]

\* calculateDynamicRanges over a non-empty set of cached records
calculateDynamicRanges(records) ==
  LET allValues == {parseHash(r.dataHash) : r \in records}
      range(key) ==
        LET values == {v[key] : v \in allValues}
        IN SetMax(values) - SetMin(values)
  IN [us10y  |-> range("us10y"),
      dxy    |-> range("dxy"),
      spread |-> range("spread"),
      m2     |-> range("m2"),
      oil    |-> range("oil"),
      ratio  |-> range("ratio"),
      pmi    |-> range("pmi"),
      vix    |-> range("vix"),
      btc    |-> range("btc")]

RECURSIVE SumOver(_, _)
SumOver(f, S) ==
  IF S = {} THEN 0
  ELSE LET k == CHOOSE x \in S : TRUE IN f[k] + SumOver(f, S \ {k})

\* the distance of calculateSimilarityHybrid, in thousandths
HybridDistance(currentHash, cachedHash, dynamicRanges) ==
  LET current == parseHash(currentHash)
      cachedValues == parseHash(cachedHash)
      effectiveRange == [k \in HashKeys |-> Max2(dynamicRanges[k], minThresholds[k])]
      diff == [k \in HashKeys |->
                 (Abs(current[k] - cachedValues[k]) * 1000) \div effectiveRange[k]]
      sq == [k \in HashKeys |-> diff[k] * diff[k]]
  IN ISqrt(SumOver(sq, HashKeys) \div Cardinality(HashKeys))

\* calculateSimilarityHybrid: exp(-distance), scaled by Scale
calculateSimilarityHybrid(currentHash, cachedHash, dynamicRanges) ==
  ExpNeg(HybridDistance(currentHash, cachedHash, dynamicRanges))

\* calculateRecencyScore at clock reading t: max(0, 1 - ageHours / 24)
calculateRecencyScore(timestamp, t) ==
  Max2(0, ((MaxAgeMs - (t - timestamp)) * 10) \div 864)

\* finalScore = similarity * 0.9 + recency * 0.1, scaled by 10 * Scale
finalScore(currentHash, rec, dynamicRanges, t) ==
  calculateSimilarityHybrid(currentHash, rec.dataHash, dynamicRanges) * 9
    + calculateRecencyScore(rec.timestamp, t)

\* ------------------------------------------------------------------ errors
\* what the provider call can throw inside generateMarketPrediction's try:
\* an Error with a message, or a thrown value that is no Error
RawErrors ==
  {[instanceOfError |-> TRUE,  message |-> "Quota exceeded for metric"],
   [instanceOfError |-> TRUE,  message |-> "Rate Limit reached"],
   [instanceOfError |-> TRUE,  message |-> "HTTP 429"],
   [instanceOfError |-> TRUE,  message |-> "RESOURCE EXHAUSTED"],
   [instanceOfError |-> TRUE,  message |-> "fetch failed"],
   [instanceOfError |-> TRUE,  message |-> "No text output from Gemini API"],
   [instanceOfError |-> FALSE, message |-> "quota"]}

\* String.prototype.toLowerCase on the messages above
toLowerCase(msg) ==
  CASE msg = "Quota exceeded for metric" -> "quota exceeded for metric"
    [] msg = "Rate Limit reached" -> "rate limit reached"
    [] msg = "HTTP 429" -> "http 429"
    [] msg = "RESOURCE EXHAUSTED" -> "resource exhausted"
    [] msg = "No text output from Gemini API" -> "no text output from gemini api"
    [] OTHER -> msg

\* String.prototype.includes on the lower-cased messages above
includes(msg, needle) ==
  \/ needle = "quota" /\ msg \in {"quota exceeded for metric", "quota"}
  \/ needle = "rate limit" /\ msg = "rate limit reached"
  \/ needle = "429" /\ msg = "http 429"
  \/ needle = "resource exhausted" /\ msg = "resource exhausted"

\* isQuotaError of lib/api/gemini.ts: by the text of the message
geminiIsQuotaError(error) ==
  /\ error.instanceOfError
  /\ LET errorMessage == toLowerCase(error.message)
     IN \/ includes(errorMessage, "quota")
        \/ includes(errorMessage, "rate limit")
        \/ includes(errorMessage, "429")
        \/ includes(errorMessage, "resource exhausted")

QuotaMessage == "API quota exceeded"

\* createQuotaError: an Error carrying isQuotaError = true
createQuotaError(message) ==
  [instanceOfError |-> TRUE, message |-> message, isQuotaError |-> TRUE]

\* handleApiError: the value that is thrown on to the caller
handleApiError(error, quotaMessage) ==
  IF geminiIsQuotaError(error) THEN createQuotaError(quotaMessage) ELSE error

\* isQuotaError of lib/types/errors.ts: by the flag
isQuotaError(error) ==
  /\ error.instanceOfError
  /\ "isQuotaError" \in DOMAIN error
  /\ error["isQuotaError"] = TRUE

\* the TypeError hashData throws on a missing indicator
TypeError == [instanceOfError |-> TRUE, message |-> "Cannot read properties of undefined"]

\* ------------------------------------------------------------------- state
VARIABLES
  now,           \* Date.now(), milliseconds
  cache,         \* Redis keys gemini:prediction:<hash> -> [val, exp]
  fallback,      \* Redis keys gemini:fallback:<timestamp> -> [val, exp]
  pc,            \* per request handler: the await it is suspended at
  modelName,     \* per handler: modelName of the request
  hash,          \* per handler: hashData(dashboardData)
  cached,        \* per handler: the CachedPrediction setPrediction builds
  fallbackKey,   \* per handler: the timestamp of setPrediction's fallbackKey
  keys,          \* per handler: the keys a redis.keys call returned / toDelete
  resp,          \* per handler: the response POST returned
  caught,        \* per handler: the error POST's catch caught in this request
  failed,        \* history, per handler: store calls that threw in this request
  requests,      \* history: requests received so far
  cleanupFailed, \* history: some cleanupFallbackKeys caught an error
  appended,      \* history: per model, fallback-log writes that succeeded
  maxPruned,     \* history: per model, largest timestamp pruning deleted
  input,         \* the arguments of a method that is applied on its own
  output,        \* what that method returned
  component,     \* AIPrediction: useState values, the ref, the rendered closure
  localStorage,  \* the browser's item gemini-model-preference
  effects,       \* AIPrediction: effects of the last commit still to run
  fetches,       \* AIPrediction: requests awaiting their response
  issued         \* history: modelName of every request the component issued

vars ==
  <<now, cache, fallback, pc, modelName, hash, cached, fallbackKey, keys,
    resp, caught, failed, requests, cleanupFailed, appended, maxPruned,
    input, output, component, localStorage, effects, fetches, issued>>

locals == <<modelName, hash, cached, fallbackKey, keys>>
history == <<requests, cleanupFailed, appended, maxPruned>>
client == <<component, localStorage, effects, fetches, issued>>
harness == <<input, output, client>>

\* no AIPrediction component is part of the run
Unmounted ==
  /\ component = None
  /\ localStorage = None
  /\ effects = <<>>
  /\ fetches = {}
  /\ issued = <<>>

\* ------------------------------------------------------------- the store
EmptyStore == [k \in {} |-> None]

\* redis.set(key, value, {ex: TTL_SECONDS}) at clock reading t
RedisSet(store, key, value, t) ==
  [k \in DOMAIN store \cup {key} |->
     IF k = key THEN [val |-> value, exp |-> t + TTL_MS] ELSE store[k]]

\* redis.del(...ks)
RedisDel(store, ks) == [k \in DOMAIN store \ ks |-> store[k]]

\* redis.keys(prefix*): the keys that have not expired
RedisKeys(store) == DOMAIN store

\* a variant of Expire that keeps a key through the millisecond it expires in
ExpireInclusive(store, t) ==
  [k \in {x \in DOMAIN store : store[x].exp >= t} |-> store[k]]

\* the store once the clock reads t: expired keys are gone
Expire(store, t) == [k \in {x \in DOMAIN store : store[x].exp > t} |-> store[k]]

\* a store call of handler p returns (ok) or throws
Threw(p, ok, call) ==
  failed' = IF ok THEN failed ELSE [failed EXCEPT ![p] = @ \cup {call}]

\* --------------------------------------------------------------- the clock
Epoch == SeedCount + 1
ShortTicks == (now % (TTL_MS - 1)) - Epoch
LongTicks == now \div (TTL_MS - 1)

Advance(d) ==
  /\ now' = now + d
  /\ cache' = Expire(cache, now + d)
  /\ fallback' = Expire(fallback, now + d)

\* one millisecond passes
TickShort ==
  /\ ShortTicks < MaxShortTicks
  /\ Advance(1)
  /\ UNCHANGED <<pc, locals, resp, caught, failed, history>>
  /\ UNCHANGED harness

\* one millisecond less than the TTL passes; a serverless invocation ends
\* within seconds, so the hours pass while no handler is running
TickLong ==
  /\ LongTicks < MaxLongTicks
  /\ \A p \in Procs : pc[p] \in {"idle", "done"}
  /\ Advance(TTL_MS - 1)
  /\ UNCHANGED <<pc, locals, resp, caught, failed, history>>
  /\ UNCHANGED harness

\* ------------------------------------------------------------------- Init
\* the record an earlier instance cached for the market of HistSnapshot(k);
\* an analysis (sentiment, reasoning, risks) is represented by the model and
\* the fingerprint it was generated for
SeedRecord(k) ==
  [prediction |-> [generatedBy |-> DEFAULT_GEMINI_MODEL,
                   generatedFor |-> hashData(HistSnapshot(k)),
                   timestamp |-> k,
                   isFallback |-> FALSE],
   timestamp |-> k,
   dataHash |-> hashData(HistSnapshot(k))]

SeedEntry(k) == [val |-> SeedRecord(k), exp |-> k + TTL_MS]

\* the value of caught while POST's catch has caught nothing
NoError == [instanceOfError |-> FALSE, message |-> None]

NoResponse ==
  [status |-> 0, error |-> None, message |-> None, body |-> None, via |-> None]

\* The Redis store outlives the serverless instances: a new instance finds
\* what earlier instances cached (SeedCount successful setPrediction calls
\* at the clock readings 1..SeedCount, one per market state).
Init ==
  /\ now = Epoch
  /\ fallback = [k \in 1..SeedCount |-> SeedEntry(k)]
  /\ cache = [h \in {hashData(HistSnapshot(k)) : k \in 1..SeedCount} |->
                SeedEntry(CHOOSE k \in 1..SeedCount : hashData(HistSnapshot(k)) = h)]
  /\ pc = [p \in Procs |-> "idle"]
  /\ modelName = [p \in Procs |-> None]
  /\ hash = [p \in Procs |-> 0]
  /\ cached = [p \in Procs |-> None]
  /\ fallbackKey = [p \in Procs |-> 0]
  /\ keys = [p \in Procs |-> {}]
  /\ resp = [p \in Procs |-> NoResponse]
  /\ caught = [p \in Procs |-> NoError]
  /\ failed = [p \in Procs |-> {}]
  /\ requests = 0
  /\ cleanupFailed = FALSE
  /\ appended = [m \in GEMINI_MODELS |->
                   IF m = DEFAULT_GEMINI_MODEL THEN SeedCount ELSE 0]
  /\ maxPruned = [m \in GEMINI_MODELS |-> 0]
  /\ input = None
  /\ output = None
  /\ Unmounted

\* ------------------------------------------------------------ responses
\* NextResponse.json(prediction) for a prediction read from the exact cache
ExactResponse(prediction) ==
  [status |-> 200, error |-> None, message |-> None,
   body |-> prediction, via |-> "exact"]

\* NextResponse.json(prediction) for the prediction the provider returned
FreshResponse(prediction) ==
  [status |-> 200, error |-> None, message |-> None,
   body |-> prediction, via |-> "fresh"]

\* a variant of FallbackResponse that leaves the flag as it was stored
FallbackResponseUnmarked(prediction) ==
  [status |-> 200, error |-> None, message |-> None,
   body |-> prediction, via |-> "fallback"]

\* NextResponse.json({...fallbackPrediction, isFallback: true, ...})
FallbackResponse(prediction) ==
  [status |-> 200, error |-> None, message |-> None,
   body |-> [prediction EXCEPT !.isFallback = TRUE], via |-> "fallback"]

\* the error response at the end of POST's catch
ErrorResponse(error) ==
  LET isQuota == isQuotaError(error)
      errorMessage == IF error.instanceOfError THEN error.message
                      ELSE "Unknown error"
  IN [status |-> IF isQuota THEN 429 ELSE 500,
      error |-> IF isQuota THEN "quota_exceeded" ELSE "prediction_failed",
      message |-> errorMessage,
      body |-> None, via |-> None]

BadRequest(error) ==
  [status |-> 400, error |-> error, message |-> None, body |-> None, via |-> None]

\* POST returns r: the handler is done and its locals are gone
Respond(p, r) ==
  /\ pc' = [pc EXCEPT ![p] = "done"]
  /\ resp' = [resp EXCEPT ![p] = r]
  /\ hash' = [hash EXCEPT ![p] = 0]
  /\ cached' = [cached EXCEPT ![p] = None]
  /\ fallbackKey' = [fallbackKey EXCEPT ![p] = 0]
  /\ keys' = [keys EXCEPT ![p] = {}]

\* the handler goes on to its next await
Goto(p, label) ==
  /\ pc' = [pc EXCEPT ![p] = label]
  /\ UNCHANGED resp

\* ------------------------------------------------------------- requests
\* request bodies: JSON that does not parse, or modelName (absent, valid or
\* not) with dashboardData; the snapshots lacking another indicator than
\* SnapBad come without a modelName
BodyModels == {None, "gemini-2.5-flash", "gemini-2.5-flash-lite", "gemini-1.0"}
Bodies ==
  {[json |-> FALSE]}
    \cup {[json |-> TRUE, modelName |-> m, dashboardData |-> d] :
            m \in BodyModels, d \in Snapshots}
    \cup {[json |-> TRUE, modelName |-> None, dashboardData |-> d] :
            d \in BadSnapshots}

\* the bodies of the concurrent writers
WriterBodies == {[json |-> TRUE, modelName |-> None, dashboardData |-> SnapA]}

\* a variant of Receive whose getPrediction reads the store before it hashes
ReceiveHashesLate(p, bodies) ==
  /\ pc[p] \in {"idle", "done"}
  /\ requests < MaxRequests
  /\ requests' = requests + 1
  /\ failed' = [failed EXCEPT ![p] = {}]
  /\ \E body \in bodies :
       LET name == IF body.json /\ body.modelName # None
                   THEN body.modelName ELSE DEFAULT_GEMINI_MODEL
       IN IF ~body.json
          THEN /\ Respond(p, BadRequest("invalid_request"))
               /\ modelName' = [modelName EXCEPT ![p] = None]
               /\ caught' = [caught EXCEPT ![p] = NoError]
          ELSE IF name \notin VALID_MODEL_NAMES
          THEN /\ Respond(p, BadRequest("invalid_model"))
               /\ modelName' = [modelName EXCEPT ![p] = None]
               /\ caught' = [caught EXCEPT ![p] = NoError]
          ELSE /\ pc' = [pc EXCEPT ![p] = "getPrediction"]
               /\ resp' = [resp EXCEPT ![p] = NoResponse]
               /\ modelName' = [modelName EXCEPT ![p] = name]
               /\ caught' = [caught EXCEPT ![p] = NoError]
               /\ hash' = [hash EXCEPT ![p] =
                             IF HasAllIndicators(body.dashboardData)
                             THEN hashData(body.dashboardData) ELSE 0]
               /\ UNCHANGED <<cached, fallbackKey, keys>>
  /\ UNCHANGED <<now, cache, fallback, cleanupFailed, appended, maxPruned>>
  /\ UNCHANGED harness

\* POST up to its first await on the store: body parsing, model validation,
\* hashData at the head of getPrediction
Receive(p, bodies) ==
  /\ pc[p] \in {"idle", "done"}
  /\ requests < MaxRequests
  /\ requests' = requests + 1
  /\ failed' = [failed EXCEPT ![p] = {}]
  /\ \E body \in bodies :
       LET name == IF body.json /\ body.modelName # None
                   THEN body.modelName ELSE DEFAULT_GEMINI_MODEL
       IN IF ~body.json
          THEN /\ Respond(p, BadRequest("invalid_request"))
               /\ modelName' = [modelName EXCEPT ![p] = None]
               /\ caught' = [caught EXCEPT ![p] = NoError]
          ELSE IF name \notin VALID_MODEL_NAMES
          THEN /\ Respond(p, BadRequest("invalid_model"))
               /\ modelName' = [modelName EXCEPT ![p] = None]
               /\ caught' = [caught EXCEPT ![p] = NoError]
          ELSE IF ~HasAllIndicators(body.dashboardData)
          THEN /\ Respond(p, ErrorResponse(TypeError))
               /\ modelName' = [modelName EXCEPT ![p] = name]
               /\ caught' = [caught EXCEPT ![p] = TypeError]
          ELSE /\ pc' = [pc EXCEPT ![p] = "getPrediction"]
               /\ resp' = [resp EXCEPT ![p] = NoResponse]
               /\ modelName' = [modelName EXCEPT ![p] = name]
               /\ caught' = [caught EXCEPT ![p] = NoError]
               /\ hash' = [hash EXCEPT ![p] = hashData(body.dashboardData)]
               /\ UNCHANGED <<cached, fallbackKey, keys>>
  /\ UNCHANGED <<now, cache, fallback, cleanupFailed, appended, maxPruned>>
  /\ UNCHANGED harness

\* the key getPrediction and setPrediction use for a request
CacheKey(p) == hash[p]

\* a variant of GetPrediction that never takes the hit branch
GetPredictionNoHit(p) ==
  /\ pc[p] = "getPrediction"
  /\ \E ok \in BOOLEAN : Threw(p, ok, "get")
  /\ Goto(p, "generate")
  /\ UNCHANGED <<now, cache, fallback, locals, caught, history>>
  /\ UNCHANGED harness

\* a variant of GetPrediction that lets the store's error reach POST's catch
GetPredictionThrows(p) ==
  /\ pc[p] = "getPrediction"
  /\ \E ok \in BOOLEAN :
       /\ Threw(p, ok, "get")
       /\ IF ~ok
          THEN /\ Respond(p, ErrorResponse(TypeError))
               /\ caught' = [caught EXCEPT ![p] = TypeError]
          ELSE IF CacheKey(p) \in DOMAIN cache
          THEN /\ Respond(p, ExactResponse(cache[CacheKey(p)].val.prediction))
               /\ UNCHANGED caught
          ELSE /\ Goto(p, "generate")
               /\ UNCHANGED <<hash, cached, fallbackKey, keys, caught>>
  /\ UNCHANGED <<now, cache, fallback, modelName, history>>
  /\ UNCHANGED harness

\* a variant of GetPrediction that writes the entry it hit back to the store
GetPredictionTouches(p) ==
  /\ pc[p] = "getPrediction"
  /\ \E ok \in BOOLEAN :
       /\ Threw(p, ok, "get")
       /\ IF ok /\ CacheKey(p) \in DOMAIN cache
          THEN /\ Respond(p, ExactResponse(cache[CacheKey(p)].val.prediction))
               /\ cache' = RedisSet(cache, CacheKey(p), cache[CacheKey(p)].val, now)
          ELSE /\ Goto(p, "generate")
               /\ UNCHANGED <<cache, hash, cached, fallbackKey, keys>>
  /\ UNCHANGED <<now, fallback, modelName, caught, history>>
  /\ UNCHANGED harness

\* getPrediction from redis.get on, and POST's `if (cachedPrediction)`
GetPrediction(p) ==
  /\ pc[p] = "getPrediction"
  /\ \E ok \in BOOLEAN :
       /\ Threw(p, ok, "get")
       /\ IF ok /\ CacheKey(p) \in DOMAIN cache
          THEN Respond(p, ExactResponse(cache[CacheKey(p)].val.prediction))
          ELSE Goto(p, "generate") /\ UNCHANGED <<hash, cached, fallbackKey, keys>>
  /\ UNCHANGED <<now, cache, fallback, modelName, caught, history>>
  /\ UNCHANGED harness

\* generateMarketPrediction returns: the prediction, then setPrediction up
\* to its first redis.set (two readings of Date.now(), d ms apart)
GenerateOk(p, gaps) ==
  /\ pc[p] = "generate"
  /\ \E d \in gaps :
       /\ d > 0 => ShortTicks < MaxShortTicks
       /\ LET prediction == [generatedBy |-> modelName[p],
                             generatedFor |-> hash[p],
                             timestamp |-> now,
                             isFallback |-> FALSE]
          IN /\ fallbackKey' = [fallbackKey EXCEPT ![p] = now]
             /\ cached' = [cached EXCEPT ![p] =
                             [prediction |-> prediction,
                              timestamp |-> now + d,
                              dataHash |-> hash[p]]]
       /\ Advance(d)
  /\ Goto(p, "setExact")
  /\ UNCHANGED <<modelName, hash, keys, caught, failed, history>>
  /\ UNCHANGED harness

\* a variant of GenerateFail that tries the fallback whatever the error is
GenerateFailAlwaysFallback(p) ==
  /\ pc[p] = "generate"
  /\ \E raw \in RawErrors :
       /\ caught' = [caught EXCEPT ![p] = handleApiError(raw, QuotaMessage)]
       /\ Goto(p, "fallbackKeys")
  /\ UNCHANGED <<now, cache, fallback, locals, failed, history>>
  /\ UNCHANGED harness

\* generateMarketPrediction throws: handleApiError, then POST's catch
GenerateFail(p) ==
  /\ pc[p] = "generate"
  /\ \E raw \in RawErrors :
       LET error == handleApiError(raw, QuotaMessage)
       IN /\ caught' = [caught EXCEPT ![p] = error]
          /\ IF isQuotaError(error)
             THEN Goto(p, "fallbackKeys") /\ UNCHANGED <<hash, cached, fallbackKey, keys>>
             ELSE Respond(p, ErrorResponse(error))
  /\ UNCHANGED <<now, cache, fallback, modelName, failed, history>>
  /\ UNCHANGED harness

\* a variant of SetExact that writes only if the key is absent (SET NX)
SetExactKeepsFirst(p) ==
  /\ pc[p] = "setExact"
  /\ \E ok \in BOOLEAN :
       /\ Threw(p, ok, "setExact")
       /\ IF ok
          THEN /\ cache' = IF CacheKey(p) \in DOMAIN cache THEN cache
                           ELSE RedisSet(cache, CacheKey(p), cached[p], now)
               /\ Goto(p, "setFallback")
               /\ UNCHANGED <<hash, cached, fallbackKey, keys>>
          ELSE /\ Respond(p, FreshResponse(cached[p].prediction))
               /\ UNCHANGED cache
  /\ UNCHANGED <<now, fallback, modelName, caught, history>>
  /\ UNCHANGED harness

\* setPrediction: redis.set(key, cached); on an error the catch, and POST
\* returns the prediction
SetExact(p) ==
  /\ pc[p] = "setExact"
  /\ \E ok \in BOOLEAN :
       /\ Threw(p, ok, "setExact")
       /\ IF ok
          THEN /\ cache' = RedisSet(cache, CacheKey(p), cached[p], now)
               /\ Goto(p, "setFallback")
               /\ UNCHANGED <<hash, cached, fallbackKey, keys>>
          ELSE /\ Respond(p, FreshResponse(cached[p].prediction))
               /\ UNCHANGED cache
  /\ UNCHANGED <<now, fallback, modelName, caught, history>>
  /\ UNCHANGED harness

\* a variant of SetFallback that stamps the record again before writing it
SetFallbackRestamped(p) ==
  /\ pc[p] = "setFallback"
  /\ \E ok \in BOOLEAN :
       /\ Threw(p, ok, "setFallback")
       /\ IF ok
          THEN /\ fallback' = RedisSet(fallback, fallbackKey[p],
                                       [cached[p] EXCEPT !.timestamp = @ + 1], now)
               /\ appended' = [appended EXCEPT ![cached[p].prediction.generatedBy] = @ + 1]
               /\ Goto(p, "cleanupKeys")
               /\ UNCHANGED <<hash, cached, fallbackKey, keys>>
          ELSE /\ Respond(p, FreshResponse(cached[p].prediction))
               /\ UNCHANGED <<fallback, appended>>
  /\ UNCHANGED <<now, cache, modelName, caught, requests, cleanupFailed, maxPruned>>
  /\ UNCHANGED harness

\* a variant of SetFallback that lets the store's error reach POST's catch
SetFallbackThrows(p) ==
  /\ pc[p] = "setFallback"
  /\ \E ok \in BOOLEAN :
       /\ Threw(p, ok, "setFallback")
       /\ IF ok
          THEN /\ fallback' = RedisSet(fallback, fallbackKey[p], cached[p], now)
               /\ appended' = [appended EXCEPT ![cached[p].prediction.generatedBy] = @ + 1]
               /\ Goto(p, "cleanupKeys")
               /\ UNCHANGED <<hash, cached, fallbackKey, keys, caught>>
          ELSE /\ Respond(p, ErrorResponse(TypeError))
               /\ caught' = [caught EXCEPT ![p] = TypeError]
               /\ UNCHANGED <<fallback, appended>>
  /\ UNCHANGED <<now, cache, modelName, requests, cleanupFailed, maxPruned>>
  /\ UNCHANGED harness

\* setPrediction: redis.set(fallbackKey, cached)
SetFallback(p) ==
  /\ pc[p] = "setFallback"
  /\ \E ok \in BOOLEAN :
       /\ Threw(p, ok, "setFallback")
       /\ IF ok
          THEN /\ fallback' = RedisSet(fallback, fallbackKey[p], cached[p], now)
               /\ appended' = [appended EXCEPT ![cached[p].prediction.generatedBy] = @ + 1]
               /\ Goto(p, "cleanupKeys")
               /\ UNCHANGED <<hash, cached, fallbackKey, keys>>
          ELSE /\ Respond(p, FreshResponse(cached[p].prediction))
               /\ UNCHANGED <<fallback, appended>>
  /\ UNCHANGED <<now, cache, modelName, caught, requests, cleanupFailed, maxPruned>>
  /\ UNCHANGED harness

\* a variant of ToDelete that keeps one key more than the last 10
ToDeleteKeepsEleven(ks) ==
  {k \in ks : Cardinality({j \in ks : j > k}) >= KeepLast + 1}

\* sortedKeys.slice(0, keys.length - 10): the oldest keys beyond the last 10
ToDelete(ks) ==
  {k \in ks : Cardinality({j \in ks : j > k}) >= KeepLast}

\* cleanupFallbackKeys: redis.keys, then the early return or toDelete
CleanupKeys(p) ==
  /\ pc[p] = "cleanupKeys"
  /\ \E ok \in BOOLEAN :
       /\ Threw(p, ok, "cleanupKeys")
       /\ IF ok /\ Cardinality(RedisKeys(fallback)) > KeepLast
          THEN /\ keys' = [keys EXCEPT ![p] = ToDelete(RedisKeys(fallback))]
               /\ Goto(p, "cleanupDel")
               /\ UNCHANGED <<hash, cached, fallbackKey, cleanupFailed>>
          ELSE /\ Respond(p, FreshResponse(cached[p].prediction))
               /\ cleanupFailed' = (cleanupFailed \/ ~ok)
  /\ UNCHANGED <<now, cache, fallback, modelName, caught, requests, appended, maxPruned>>
  /\ UNCHANGED harness

\* a variant of CleanupDel that lets the store's error reach POST's catch
CleanupDelThrows(p) ==
  /\ pc[p] = "cleanupDel"
  /\ \E ok \in BOOLEAN :
       /\ Threw(p, ok, "cleanupDel")
       /\ IF ok
          THEN /\ fallback' = RedisDel(fallback, keys[p])
               /\ maxPruned' =
                    [m \in GEMINI_MODELS |->
                       SetMax({maxPruned[m]} \cup
                              {k \in keys[p] \cap DOMAIN fallback :
                                 fallback[k].val.prediction.generatedBy = m})]
               /\ Respond(p, FreshResponse(cached[p].prediction))
               /\ UNCHANGED <<cleanupFailed, caught>>
          ELSE /\ cleanupFailed' = TRUE
               /\ Respond(p, ErrorResponse(TypeError))
               /\ caught' = [caught EXCEPT ![p] = TypeError]
               /\ UNCHANGED <<fallback, maxPruned>>
  /\ UNCHANGED <<now, cache, modelName, requests, appended>>
  /\ UNCHANGED harness

\* cleanupFallbackKeys: redis.del(...toDelete); setPrediction and POST return
CleanupDel(p) ==
  /\ pc[p] = "cleanupDel"
  /\ \E ok \in BOOLEAN :
       /\ Threw(p, ok, "cleanupDel")
       /\ IF ok
          THEN /\ fallback' = RedisDel(fallback, keys[p])
               /\ maxPruned' =
                    [m \in GEMINI_MODELS |->
                       SetMax({maxPruned[m]} \cup
                              {k \in keys[p] \cap DOMAIN fallback :
                                 fallback[k].val.prediction.generatedBy = m})]
               /\ UNCHANGED cleanupFailed
          ELSE /\ cleanupFailed' = TRUE
               /\ UNCHANGED <<fallback, maxPruned>>
  /\ Respond(p, FreshResponse(cached[p].prediction))
  /\ UNCHANGED <<now, cache, modelName, caught, requests, appended>>
  /\ UNCHANGED harness

\* getBestMatchingPrediction: redis.keys
FallbackKeys(p) ==
  /\ pc[p] = "fallbackKeys"
  /\ \E ok \in BOOLEAN :
       /\ Threw(p, ok, "fallbackKeys")
       /\ IF ok /\ RedisKeys(fallback) # {}
          THEN /\ keys' = [keys EXCEPT ![p] = RedisKeys(fallback)]
               /\ Goto(p, "fallbackGets")
               /\ UNCHANGED <<hash, cached, fallbackKey>>
          ELSE Respond(p, ErrorResponse(caught[p]))
  /\ UNCHANGED <<now, cache, fallback, modelName, caught, history>>
  /\ UNCHANGED harness

\* the pairs whose redis.get returned a record
ValidPairs(ks) == ks \cap DOMAIN fallback

\* the reduce over scoredPredictions keeps the first of the best scores;
\* redis.keys fixes no order, so any candidate of maximal finalScore can be
\* the one returned
BestMatches(currentHash, ks, t) ==
  LET validCachedPredictions == {fallback[k].val : k \in ks}
      dynamicRanges == calculateDynamicRanges(validCachedPredictions)
      scoredPredictions ==
        {[key |-> k,
          finalScore |-> finalScore(currentHash, fallback[k].val, dynamicRanges, t)] :
           k \in ks}
  IN {curr.key : curr \in {c \in scoredPredictions :
                             \A prev \in scoredPredictions :
                               prev.finalScore <= c.finalScore}}

\* a variant of FallbackGets that finds no match whatever the log holds
FallbackGetsNoMatch(p) ==
  /\ pc[p] = "fallbackGets"
  /\ \E ok \in BOOLEAN : Threw(p, ok, "fallbackGets")
  /\ Respond(p, ErrorResponse(caught[p]))
  /\ UNCHANGED <<now, cache, fallback, modelName, caught, history>>
  /\ UNCHANGED harness

\* a variant of FallbackGets that lets the store's error reach the caller
FallbackGetsThrows(p) ==
  /\ pc[p] = "fallbackGets"
  /\ \E ok \in BOOLEAN :
       /\ Threw(p, ok, "fallbackGets")
       /\ IF ~ok
          THEN Respond(p, ErrorResponse(TypeError))
          ELSE IF ValidPairs(keys[p]) # {}
          THEN \E best \in BestMatches(hash[p], ValidPairs(keys[p]), now) :
                 Respond(p, FallbackResponse(fallback[best].val.prediction))
          ELSE Respond(p, ErrorResponse(caught[p]))
  /\ UNCHANGED <<now, cache, fallback, modelName, caught, history>>
  /\ UNCHANGED harness

\* a variant of FallbackGets that takes an enumerated key without a value
\* for an error
FallbackGetsStrict(p) ==
  /\ pc[p] = "fallbackGets"
  /\ \E ok \in BOOLEAN :
       /\ Threw(p, ok, "fallbackGets")
       /\ IF ok /\ ~(keys[p] \subseteq DOMAIN fallback)
          THEN Respond(p, ErrorResponse(TypeError))
          ELSE IF ok /\ ValidPairs(keys[p]) # {}
          THEN \E best \in BestMatches(hash[p], ValidPairs(keys[p]), now) :
                 Respond(p, FallbackResponse(fallback[best].val.prediction))
          ELSE Respond(p, ErrorResponse(caught[p]))
  /\ UNCHANGED <<now, cache, fallback, modelName, caught, history>>
  /\ UNCHANGED harness

\* a variant of FallbackGets that caches the match it serves under the
\* request's fingerprint
FallbackGetsCaches(p) ==
  /\ pc[p] = "fallbackGets"
  /\ \E ok \in BOOLEAN :
       /\ Threw(p, ok, "fallbackGets")
       /\ IF ok /\ ValidPairs(keys[p]) # {}
          THEN \E best \in BestMatches(hash[p], ValidPairs(keys[p]), now) :
                 /\ Respond(p, FallbackResponse(fallback[best].val.prediction))
                 /\ cache' = RedisSet(cache, CacheKey(p),
                                      [prediction |-> [fallback[best].val.prediction
                                                         EXCEPT !.isFallback = TRUE],
                                       timestamp |-> now,
                                       dataHash |-> hash[p]], now)
          ELSE Respond(p, ErrorResponse(caught[p])) /\ UNCHANGED cache
  /\ UNCHANGED <<now, fallback, modelName, caught, history>>
  /\ UNCHANGED harness

\* getBestMatchingPrediction from the redis.get calls on, and POST's catch
FallbackGets(p) ==
  /\ pc[p] = "fallbackGets"
  /\ \E ok \in BOOLEAN :
       /\ Threw(p, ok, "fallbackGets")
       /\ IF ok /\ ValidPairs(keys[p]) # {}
          THEN \E best \in BestMatches(hash[p], ValidPairs(keys[p]), now) :
                 Respond(p, FallbackResponse(fallback[best].val.prediction))
          ELSE Respond(p, ErrorResponse(caught[p]))
  /\ UNCHANGED <<now, cache, fallback, modelName, caught, history>>
  /\ UNCHANGED harness

\* ------------------------------------------------------------------- Next
\* one handler, every request body, every outcome of provider and store
Next ==
  \/ TickShort
  \/ TickLong
  \/ Receive("p1", Bodies)
  \/ GetPrediction("p1")
  \/ GenerateOk("p1", {0})
  \/ GenerateFail("p1")
  \/ SetExact("p1")
  \/ SetFallback("p1")
  \/ CleanupKeys("p1")
  \/ CleanupDel("p1")
  \/ FallbackKeys("p1")
  \/ FallbackGets("p1")

Spec == Init /\ [][Next]_vars

\* concurrent handlers whose provider calls succeed
NextWriters ==
  \/ TickShort
  \/ \E p \in Procs :
       \/ Receive(p, WriterBodies)
       \/ GetPrediction(p)
       \/ GenerateOk(p, {0})
       \/ SetExact(p)
       \/ SetFallback(p)
       \/ CleanupKeys(p)
       \/ CleanupDel(p)

SpecWriters == Init /\ [][NextWriters]_vars

\* the concurrent writers, with the clock free to advance between the two
\* readings of Date.now() in setPrediction
NextStamped ==
  \/ TickShort
  \/ \E p \in Procs :
       \/ Receive(p, WriterBodies)
       \/ GetPrediction(p)
       \/ GenerateOk(p, {0, 1})
       \/ SetExact(p)
       \/ SetFallback(p)
       \/ CleanupKeys(p)
       \/ CleanupDel(p)

SpecStamped == Init /\ [][NextStamped]_vars

\* ---------------------------------------------- hashData and parseHash
\* the store and the handlers while a method is applied on its own
IdleHandlers ==
  /\ pc = [p \in Procs |-> "idle"]
  /\ modelName = [p \in Procs |-> None]
  /\ hash = [p \in Procs |-> 0]
  /\ cached = [p \in Procs |-> None]
  /\ fallbackKey = [p \in Procs |-> 0]
  /\ keys = [p \in Procs |-> {}]
  /\ resp = [p \in Procs |-> NoResponse]
  /\ caught = [p \in Procs |-> NoError]
  /\ failed = [p \in Procs |-> {}]
  /\ requests = 0
  /\ cleanupFailed = FALSE
  /\ maxPruned = [m \in GEMINI_MODELS |-> 0]

Idle ==
  /\ now = Epoch
  /\ fallback = [k \in 1..SeedCount |-> SeedEntry(k)]
  /\ cache = [h \in {hashData(HistSnapshot(k)) : k \in 1..SeedCount} |->
                SeedEntry(CHOOSE k \in 1..SeedCount : hashData(HistSnapshot(k)) = h)]
  /\ appended = [m \in GEMINI_MODELS |->
                   IF m = DEFAULT_GEMINI_MODEL THEN SeedCount ELSE 0]
  /\ IdleHandlers

program ==
  <<now, cache, fallback, pc, modelName, hash, cached, fallbackKey, keys,
    resp, caught, failed, requests, cleanupFailed, appended, maxPruned>>

\* the DashboardData whose indicators hold the values parseHash returned
DataOf(values) ==
  [us10yYield |-> values.us10y, dxy |-> values.dxy,
   highYieldSpread |-> values.spread, m2MoneySupply |-> values.m2,
   crudeOil |-> values.oil, copperGoldRatio |-> values.ratio,
   pmi |-> values.pmi, putCallRatio |-> values.vix, bitcoin |-> values.btc]

\* two snapshots are to be hashed
InitHash ==
  /\ Idle
  /\ input \in {[a |-> x, b |-> y] : x, y \in HashSnapshots}
  /\ output = [stage |-> "none"]
  /\ Unmounted

\* hashData(a), hashData(b)
ApplyHashData ==
  /\ output.stage = "none"
  /\ output' = [stage |-> "hashed",
                hashA |-> hashData(input.a), hashB |-> hashData(input.b)]
  /\ UNCHANGED <<program, input, client>>

\* parseHash of both hashes
ApplyParseHash ==
  /\ output.stage = "hashed"
  /\ output' = [stage |-> "parsed",
                hashA |-> output.hashA, hashB |-> output.hashB,
                valuesA |-> parseHash(output.hashA),
                valuesB |-> parseHash(output.hashB)]
  /\ UNCHANGED <<program, input, client>>

\* hashData of the values parseHash returned
ApplyHashDataAgain ==
  /\ output.stage = "parsed"
  /\ output' = [stage |-> "rehashed",
                hashA |-> output.hashA, hashB |-> output.hashB,
                valuesA |-> output.valuesA, valuesB |-> output.valuesB,
                againA |-> hashData(DataOf(output.valuesA)),
                againB |-> hashData(DataOf(output.valuesB))]
  /\ UNCHANGED <<program, input, client>>

NextHash == ApplyHashData \/ ApplyParseHash \/ ApplyHashDataAgain

SpecHash == InitHash /\ [][NextHash]_vars

\* ------------------------------------------- getBestMatchingPrediction
\* the clock while the log is searched: two TTLs after the epoch
SelectNow == 2 * TTL_MS

\* ages of the log entries: written in this millisecond, in the one before,
\* six hours ago, and one millisecond before their expiry
CandidateAges == {0, 1, 6 * 60 * 60 * 1000, TTL_MS - 1}

\* the snapshot next to SnapA: us10yYield rounds to 4.53 instead of 4.52
SnapNear == HashSnapshot(2, 0, 1)

\* what the entries were cached for, and what is looked up
CandidateData == {SnapA2, SnapNear, SnapB}
CurrentData == {SnapA, SnapB, HistSnapshot(1)}

\* an entry setPrediction wrote `age` ms ago for data; its timestamp (the
\* second reading of Date.now()) is lag ms after the one in its key
CandidateEntry(age, data, lag) ==
  [val |-> [prediction |-> [generatedBy |-> DEFAULT_GEMINI_MODEL,
                            generatedFor |-> hashData(data),
                            timestamp |-> SelectNow - age,
                            isFallback |-> FALSE],
            timestamp |-> SelectNow - age + lag,
            dataHash |-> hashData(data)],
   exp |-> SelectNow - age + lag + TTL_MS]

\* the logs of at most MaxCandidates entries: key -> entry
CandidateLogs ==
  LET shapes ==
        UNION {[A -> [data : CandidateData, lag : {0, 1}]] :
                 A \in {B \in SUBSET CandidateAges : Cardinality(B) <= MaxCandidates}}
      timely == {f \in shapes : \A a \in DOMAIN f : f[a].lag = 1 => a = 1}
  IN {[k \in {SelectNow - a : a \in DOMAIN f} |->
         CandidateEntry(SelectNow - k, f[SelectNow - k].data, f[SelectNow - k].lag)] :
        f \in timely}

\* the orders in which redis.keys can return the keys ks
Enumerations(ks) ==
  {order \in [1..Cardinality(ks) -> ks] :
     \A i, j \in 1..Cardinality(ks) : order[i] = order[j] => i = j}

\* redis.keys has returned input.keys; of the entries it saw, those in `gone`
\* have expired or been pruned before they are read
InitSelect ==
  /\ now = SelectNow
  /\ \E log \in CandidateLogs :
       \E gone \in SUBSET DOMAIN log :
         /\ fallback = [k \in DOMAIN log \ gone |-> log[k]]
         /\ cache = [h \in {log[k].val.dataHash : k \in DOMAIN log \ gone} |->
                       log[SetMax({k \in DOMAIN log \ gone : log[k].val.dataHash = h})]]
         /\ appended = [m \in GEMINI_MODELS |->
                          IF m = DEFAULT_GEMINI_MODEL THEN Cardinality(DOMAIN log) ELSE 0]
         /\ input \in {[currentData |-> d, keys |-> order] :
                          d \in CurrentData, order \in Enumerations(DOMAIN log)}
  /\ IdleHandlers
  /\ output = [stage |-> "none"]
  /\ Unmounted

\* the pair of an enumerated key is valid: its redis.get returned a record
IsValidPair(k) == k \in DOMAIN fallback

\* validPairs, in the order of enumeration
validPairs(ks) == SelectSeq(ks, IsValidPair)

\* scoredPredictions, in the order of enumeration
scoredPredictions(currentHash, pairs, dynamicRanges, t) ==
  [i \in 1..Len(pairs) |->
     [key |-> pairs[i],
      finalScore |-> finalScore(currentHash, fallback[pairs[i]].val, dynamicRanges, t)]]

\* a variant of reduce that keeps the lower score
RECURSIVE reduceLowest(_, _, _)
reduceLowest(scored, i, prev) ==
  IF i > Len(scored) THEN prev
  ELSE reduceLowest(scored, i + 1,
                    IF scored[i].finalScore < prev.finalScore THEN scored[i] ELSE prev)

\* a variant of reduce that replaces the best on an equal score
RECURSIVE reduceLast(_, _, _)
reduceLast(scored, i, prev) ==
  IF i > Len(scored) THEN prev
  ELSE reduceLast(scored, i + 1,
                  IF scored[i].finalScore >= prev.finalScore THEN scored[i] ELSE prev)

\* scoredPredictions.reduce((prev, curr) =>
\*   curr.finalScore > prev.finalScore ? curr : prev) from element i on
RECURSIVE reduce(_, _, _)
reduce(scored, i, prev) ==
  IF i > Len(scored) THEN prev
  ELSE reduce(scored, i + 1,
              IF scored[i].finalScore > prev.finalScore THEN scored[i] ELSE prev)

\* getBestMatchingPrediction returned null
NoMatch(threw, ranged) ==
  [stage |-> "returned", found |-> FALSE, key |-> 0, threw |-> threw,
   ranged |-> ranged, dynamicRanges |-> [k \in HashKeys |-> 0]]

\* a variant of getBestMatchingPrediction without its two early returns:
\* reduce of an empty array throws, the catch returns null
getBestMatchingPredictionUnguarded(currentData, ks, t) ==
  LET pairs == validPairs(ks)
  IN IF Len(pairs) = 0 THEN NoMatch(TRUE, TRUE)
     ELSE LET dynamicRanges ==
                calculateDynamicRanges({fallback[pairs[i]].val : i \in 1..Len(pairs)})
              scored == scoredPredictions(hashData(currentData), pairs, dynamicRanges, t)
              best == reduce(scored, 2, scored[1])
          IN [stage |-> "returned", found |-> TRUE, key |-> best.key,
              threw |-> FALSE, ranged |-> TRUE, dynamicRanges |-> dynamicRanges]

\* a variant of getBestMatchingPrediction that returns a match only if its
\* similarity is at least one half
getBestMatchingPredictionSimilar(currentData, ks, t) ==
  IF Len(ks) = 0 THEN NoMatch(FALSE, FALSE)
  ELSE LET pairs == validPairs(ks)
       IN IF Len(pairs) = 0 THEN NoMatch(FALSE, FALSE)
          ELSE LET dynamicRanges ==
                     calculateDynamicRanges({fallback[pairs[i]].val : i \in 1..Len(pairs)})
                   scored == scoredPredictions(hashData(currentData), pairs, dynamicRanges, t)
                   best == reduce(scored, 2, scored[1])
               IN IF 2 * calculateSimilarityHybrid(hashData(currentData),
                                                   fallback[best.key].val.dataHash,
                                                   dynamicRanges) < Scale
                  THEN NoMatch(FALSE, TRUE)
                  ELSE [stage |-> "returned", found |-> TRUE, key |-> best.key,
                        threw |-> FALSE, ranged |-> TRUE, dynamicRanges |-> dynamicRanges]

\* getBestMatchingPrediction once redis.keys has returned ks, at clock
\* reading t: the key of the entry whose prediction it returns, whether its
\* catch was entered, whether calculateDynamicRanges was called
getBestMatchingPrediction(currentData, ks, t) ==
  IF Len(ks) = 0 THEN NoMatch(FALSE, FALSE)
  ELSE LET pairs == validPairs(ks)
       IN IF Len(pairs) = 0 THEN NoMatch(FALSE, FALSE)
          ELSE LET dynamicRanges ==
                     calculateDynamicRanges({fallback[pairs[i]].val : i \in 1..Len(pairs)})
                   scored == scoredPredictions(hashData(currentData), pairs, dynamicRanges, t)
                   best == reduce(scored, 2, scored[1])
               IN [stage |-> "returned", found |-> TRUE, key |-> best.key,
                   threw |-> FALSE, ranged |-> TRUE, dynamicRanges |-> dynamicRanges]

ApplyGetBestMatchingPrediction ==
  /\ output.stage = "none"
  /\ output' = getBestMatchingPrediction(input.currentData, input.keys, now)
  /\ UNCHANGED <<program, input, client>>

NextSelect == ApplyGetBestMatchingPrediction

SpecSelect == InitSelect /\ [][NextSelect]_vars

\* ------------------------------------ writers on a new or a full store
\* what earlier instances left behind: nothing, or a full log
LeftBehind == {0, SeedCount}

InitAnyLog ==
  /\ now = Epoch
  /\ \E n \in LeftBehind :
       /\ fallback = [k \in 1..n |-> SeedEntry(k)]
       /\ cache = [h \in {hashData(HistSnapshot(k)) : k \in 1..n} |->
                     SeedEntry(CHOOSE k \in 1..n : hashData(HistSnapshot(k)) = h)]
       /\ appended = [m \in GEMINI_MODELS |->
                        IF m = DEFAULT_GEMINI_MODEL THEN n ELSE 0]
  /\ IdleHandlers
  /\ input = None
  /\ output = None
  /\ Unmounted

SpecAnyLog == InitAnyLog /\ [][NextWriters]_vars

\* ------------------------------------ a fallback read beside a writer
\* the record an instance cached a day ago, at clock reading Epoch + k - 1
AgedRecord(k) ==
  [prediction |-> [generatedBy |-> DEFAULT_GEMINI_MODEL,
                   generatedFor |-> hashData(HistSnapshot(k)),
                   timestamp |-> Epoch + k - 1,
                   isFallback |-> FALSE],
   timestamp |-> Epoch + k - 1,
   dataHash |-> hashData(HistSnapshot(k))]

AgedEntry(k) == [val |-> AgedRecord(k), exp |-> Epoch + k - 1 + TTL_MS]

\* the log is full and its oldest entry expires in a millisecond
InitReader ==
  /\ now = Epoch + TTL_MS - 1
  /\ fallback = [t \in Epoch..(Epoch + SeedCount - 1) |-> AgedEntry(t - Epoch + 1)]
  /\ cache = [h \in {hashData(HistSnapshot(k)) : k \in 1..SeedCount} |->
                AgedEntry(CHOOSE k \in 1..SeedCount : hashData(HistSnapshot(k)) = h)]
  /\ appended = [m \in GEMINI_MODELS |->
                   IF m = DEFAULT_GEMINI_MODEL THEN SeedCount ELSE 0]
  /\ IdleHandlers
  /\ input = None
  /\ output = None
  /\ Unmounted

\* p1's provider calls fail, p2's succeed
NextReader ==
  \/ TickShort
  \/ Receive("p1", WriterBodies)
  \/ GetPrediction("p1")
  \/ GenerateFail("p1")
  \/ FallbackKeys("p1")
  \/ FallbackGets("p1")
  \/ Receive("p2", WriterBodies)
  \/ GetPrediction("p2")
  \/ GenerateOk("p2", {0})
  \/ SetExact("p2")
  \/ SetFallback("p2")
  \/ CleanupKeys("p2")
  \/ CleanupDel("p2")

SpecReader == InitReader /\ [][NextReader]_vars

\* ------------------------------------------- the AIPrediction component
\* what localStorage.getItem finds: nothing, a model of the list, a name
\* that is not in the list, or a storage that throws
Unavailable == "unavailable"
StoredItems == {None, "gemini-2.5-flash", "gemini-2.5-flash-lite", "gemini-1.0", Unavailable}

NoPrediction == [id |-> 0, modelName |-> None]

\* the responses of /api/ai-prediction the component tells apart
ClientResponses ==
  {[status |-> 200, message |-> None],
   [status |-> 429, message |-> QuotaMessage],
   [status |-> 500, message |-> "fetch failed"],
   [status |-> 500, message |-> ""]}

\* the first render: useState and useRef initial values, three effects
InitClient ==
  /\ Idle
  /\ input = None
  /\ output = None
  /\ component = [prediction |-> NoPrediction, loading |-> TRUE, error |-> None,
                  selectedModel |-> DEFAULT_GEMINI_MODEL,
                  rendered |-> DEFAULT_GEMINI_MODEL,
                  isInitialMount |-> TRUE]
  /\ localStorage \in StoredItems
  /\ effects = <<"load", "save", "fetch">>
  /\ fetches = {}
  /\ issued = <<>>

\* fetchPrediction up to its await fetch(...)
fetchPrediction(comp, modelToUse) ==
  /\ component' = [comp EXCEPT !.loading = TRUE, !.error = None]
  /\ fetches' = fetches \cup {[id |-> Len(issued) + 1, modelName |-> modelToUse]}
  /\ issued' = Append(issued, modelToUse)

\* the effect with no dependencies: load the preference, fetch
EffectLoad ==
  /\ effects # <<>> /\ Head(effects) = "load"
  /\ LET valid == localStorage \in GEMINI_MODELS
         modelToUse == IF valid THEN localStorage ELSE DEFAULT_GEMINI_MODEL
     IN fetchPrediction([component EXCEPT !.selectedModel = modelToUse], modelToUse)
  /\ effects' = Tail(effects)
  /\ UNCHANGED <<program, input, output, localStorage>>

\* the effect that saves selectedModel, skipped while isInitialMount
EffectSave ==
  /\ effects # <<>> /\ Head(effects) = "save"
  /\ IF component.isInitialMount
     THEN /\ component' = [component EXCEPT !.isInitialMount = FALSE]
          /\ UNCHANGED localStorage
     ELSE /\ localStorage' = IF localStorage = Unavailable THEN Unavailable
                              ELSE component.rendered
          /\ UNCHANGED component
  /\ effects' = Tail(effects)
  /\ UNCHANGED <<program, input, output, fetches, issued>>

\* the effect that fetches when selectedModel changed, skipped while
\* isInitialMount
EffectFetch ==
  /\ effects # <<>> /\ Head(effects) = "fetch"
  /\ IF component.isInitialMount
     THEN UNCHANGED <<component, fetches, issued>>
     ELSE fetchPrediction(component, component.rendered)
  /\ effects' = Tail(effects)
  /\ UNCHANGED <<program, input, output, localStorage>>

\* a render after selectedModel changed: the two effects that depend on it
Render ==
  /\ effects = <<>>
  /\ component.rendered # component.selectedModel
  /\ component' = [component EXCEPT !.rendered = component.selectedModel]
  /\ effects' = <<"save", "fetch">>
  /\ UNCHANGED <<program, input, output, localStorage, fetches, issued>>

\* the page is at rest and its controls are enabled
Enabled ==
  /\ effects = <<>>
  /\ component.rendered = component.selectedModel
  /\ ~component.loading
  /\ Len(issued) < MaxFetches

\* onChange of the model selector
SelectModel ==
  /\ Enabled
  /\ \E m \in GEMINI_MODELS \ {component.selectedModel} :
       component' = [component EXCEPT !.selectedModel = m]
  /\ UNCHANGED <<program, input, output, localStorage, effects, fetches, issued>>

\* onClick of Refresh or Retry
Click ==
  /\ Enabled
  /\ fetchPrediction(component, component.rendered)
  /\ UNCHANGED <<program, input, output, localStorage, effects>>

\* fetchPrediction from the response on: setPrediction or setError (the
\* server's message, or the component's own text when there is none), then
\* setLoading(false)
Resolve ==
  /\ effects = <<>>
  /\ \E f \in fetches, r \in ClientResponses :
       /\ fetches' = fetches \ {f}
       /\ component' =
            IF r.status = 200
            THEN [component EXCEPT !.prediction = [id |-> f.id, modelName |-> f.modelName],
                                   !.loading = FALSE]
            ELSE [component EXCEPT !.error = IF r.message # "" THEN r.message
                                             ELSE IF r.status = 429
                                             THEN "API usage limit exceeded"
                                             ELSE "Failed to fetch AI prediction",
                                   !.loading = FALSE]
  /\ UNCHANGED <<program, input, output, localStorage, effects, issued>>

NextClient ==
  \/ EffectLoad
  \/ EffectSave
  \/ EffectFetch
  \/ Render
  \/ SelectModel
  \/ Click
  \/ Resolve

SpecClient == InitClient /\ [][NextClient]_vars

\* ------------------------------------------------- generateAIComments
\* the symbols of indicatorMap, in its order
indicatorMap ==
  <<"US10Y", "DXY", "HYS", "M2", "CPI", "PAYEMS", "OIL", "Cu/Au", "MFG",
    "VIX", "BTC">>

Indicators == 1..Len(indicatorMap)

\* Comment texts are numbered, 0 being null, undefined or a missing property:
\* the comment the store holds for an indicator, the one the provider
\* generates for it and the one getLatestComment finds for it.
CachedComment(i) == i
BatchComment(i) == 100 + i
LatestComment(i) == 200 + i

\* at most MaxFew elements of S
Few(S) == {d \in SUBSET S : Cardinality(d) <= MaxFew}

\* the indicators of S in the order of indicatorMap
InOrder(S) == SelectSeq([i \in Indicators |-> i], LAMBDA i : i \in S)

Range(seq) == {seq[n] : n \in DOMAIN seq}

\* generateAIComments is called: each indicator's key holds a comment that
\* redis.get returns, or getComment returns null (no key, or redis.get threw)
InitComments ==
  /\ Idle
  /\ input \in {[cached |-> [i \in Indicators |->
                               IF i \in h THEN CachedComment(i) ELSE 0]] :
                  h \in SUBSET Indicators}
  /\ output = [at |-> "start",
               comments |-> [i \in Indicators |-> 0],
               cacheMisses |-> <<>>,
               batchComments |-> [i \in Indicators |-> 0],
               calls |-> <<>>,
               written |-> [i \in Indicators |-> 0],
               threw |-> FALSE]
  /\ Unmounted

getComment(i) == input.cached[i]

\* step 1: the parallel lookups, then the separation of hits and misses
CheckCache ==
  /\ output.at = "start"
  /\ LET cacheHits == {i \in Indicators : getComment(i) # 0}
         misses == InOrder(Indicators \ cacheHits)
     IN output' = [output EXCEPT
                     !.comments = [i \in Indicators |->
                                     IF i \in cacheHits THEN getComment(i) ELSE 0],
                     !.cacheMisses = misses,
                     !.at = IF Len(misses) > 0 THEN "batch" ELSE "done"]
  /\ UNCHANGED <<program, input, client>>

\* The objects generateBatchComments can return for a request: comments for
\* the requested symbols, a few of them or all of them missing, or a comment
\* for every symbol of indicatorMap, requested or not.
BatchReplies(requested) ==
  {[i \in Indicators |-> IF i \in requested \ d THEN BatchComment(i) ELSE 0] :
     d \in Few(requested) \cup {requested}}
    \cup {[i \in Indicators |-> BatchComment(i)]}

\* step 2: generateBatchComments(cacheMisses) returns
GenerateBatchComments ==
  /\ output.at = "batch"
  /\ \E reply \in BatchReplies(Range(output.cacheMisses)) :
       output' = [output EXCEPT !.calls = Append(@, output.cacheMisses),
                                !.batchComments = reply,
                                !.at = "store"]
  /\ UNCHANGED <<program, input, client>>

\* step 2: generateBatchComments(cacheMisses) throws
GenerateBatchCommentsThrows ==
  /\ output.at = "batch"
  /\ output' = [output EXCEPT !.calls = Append(@, output.cacheMisses),
                              !.threw = TRUE,
                              !.at = "fallback"]
  /\ UNCHANGED <<program, input, client>>

\* the loop over every indicator, in place of the loop over the misses
StoreLoopAll == Indicators

\* the indicators step 3 loops over
StoreLoop == Range(output.cacheMisses)

\* step 3: each comment of the reply is recorded and written to the store;
\* setComment swallows the error of a write the store rejects
StoreComments ==
  /\ output.at = "store"
  /\ LET present == {i \in StoreLoop : output.batchComments[i] # 0}
     IN \E rejected \in Few(present) \cup {present} :
          output' = [output EXCEPT
                       !.comments = [i \in Indicators |->
                                       IF i \in present
                                       THEN output.batchComments[i] ELSE @[i]],
                       !.written = [i \in Indicators |->
                                      IF i \in present \ rejected
                                      THEN output.batchComments[i] ELSE 0],
                       !.at = "done"]
  /\ UNCHANGED <<program, input, client>>

\* the catch block: getLatestComment per missed symbol finds a comment for
\* some of them; for the others it returns null or throws, which is caught
FallbackComments ==
  /\ output.at = "fallback"
  /\ LET missed == Range(output.cacheMisses)
     IN \E found \in Few(missed) \cup {missed} :
          output' = [output EXCEPT
                       !.comments = [i \in Indicators |->
                                       IF i \in found
                                       THEN LatestComment(i) ELSE @[i]],
                       !.at = "done"]
  /\ UNCHANGED <<program, input, client>>

NextComments ==
  \/ CheckCache
  \/ GenerateBatchComments
  \/ GenerateBatchCommentsThrows
  \/ StoreComments
  \/ FallbackComments

SpecComments == InitComments /\ [][NextComments]_vars

\* ------------------------------------------------------------- properties
\* the log entries whose analysis model m generated
LogOf(m) == {k \in DOMAIN fallback : fallback[k].val.prediction.generatedBy = m}

\* the handlers between their fallback-log write and the end of its pruning
Pruning == {p \in Procs : pc[p] \in {"cleanupKeys", "cleanupDel"}}

\* no handler is running
Quiescent == \A p \in Procs : pc[p] \in {"idle", "done"}

\* what generateMarketPrediction can throw on to POST
ProviderErrors == {handleApiError(raw, QuotaMessage) : raw \in RawErrors}

\* C1: cross-variant isolation. Every analysis a request receives (from the
\* exact lookup or from the similarity fallback) was generated for the model
\* variant the request was made with.
C1_CrossVariantIsolation ==
  \A p \in Procs :
    (pc[p] = "done" /\ resp[p].status = 200)
      => resp[p].body.generatedBy = modelName[p]

\* C2 as stated: whenever the store holds a live exact-match entry for the
\* request's fingerprint when getPrediction looks it up, the request returns
\* that entry's analysis.
C2_FastPath ==
  [][\A p \in Procs :
       (pc[p] = "getPrediction" /\ pc'[p] # "getPrediction"
          /\ CacheKey(p) \in DOMAIN cache)
         => /\ pc'[p] = "done"
            /\ resp'[p] = ExactResponse(cache[CacheKey(p)].val.prediction)]_vars

\* C2, amended: whenever the exact lookup's store read succeeds and finds a
\* live entry for the request's fingerprint, the request returns that entry's
\* analysis; and a request calls the provider only after its lookup missed
\* or its read failed, never after a hit.
C2_FastPathOnRead ==
  [][\A p \in Procs :
       /\ (pc[p] = "getPrediction" /\ pc'[p] # "getPrediction"
             /\ CacheKey(p) \in DOMAIN cache /\ "get" \notin failed'[p])
            => /\ pc'[p] = "done"
               /\ resp'[p].status = 200
               /\ resp'[p].body = cache[CacheKey(p)].val.prediction
               /\ UNCHANGED <<cache, fallback>>
       /\ (pc'[p] = "generate" /\ pc[p] # "generate")
            => /\ pc[p] = "getPrediction"
               /\ CacheKey(p) \notin DOMAIN cache \/ "get" \in failed'[p]]_vars

\* a request was answered from a live exact-match entry whose read succeeded
C2_ExactHit ==
  \E p \in Procs :
    /\ pc[p] = "done"
    /\ resp[p].via = "exact"
    /\ failed[p] = {}
    /\ \E h \in DOMAIN cache : cache[h].val.prediction = resp[p].body

\* C3: quota fallback. A provider failure classified as quota leads to the
\* similarity lookup, and that lookup ends in one of two outcomes only: the
\* analysis of an entry that is in the fallback log when it is read, marked
\* as fallback, or 429 quota_exceeded; it is an analysis whenever the reads
\* succeed and at least one enumerated entry is still in the log.
C3_QuotaFallback ==
  [][\A p \in Procs :
       /\ (pc[p] = "generate" /\ caught'[p] # NoError /\ isQuotaError(caught'[p]))
            => pc'[p] = "fallbackKeys"
       /\ (pc[p] \in {"fallbackKeys", "fallbackGets"} /\ pc'[p] # pc[p])
            => \/ pc[p] = "fallbackKeys" /\ pc'[p] = "fallbackGets"
                    /\ keys'[p] = DOMAIN fallback /\ keys'[p] # {}
               \/ /\ pc'[p] = "done"
                  /\ resp'[p].status = 429
                  /\ resp'[p].error = "quota_exceeded"
                  /\ resp'[p].via = None
               \/ /\ pc[p] = "fallbackGets"
                  /\ pc'[p] = "done"
                  /\ resp'[p].status = 200
                  /\ \E k \in keys[p] \cap DOMAIN fallback :
                       resp'[p].body =
                         [fallback[k].val.prediction EXCEPT !.isFallback = TRUE]
       /\ (pc[p] = "fallbackKeys" /\ pc'[p] = "done"
             /\ "fallbackKeys" \notin failed'[p])
            => DOMAIN fallback = {}
       /\ (pc[p] = "fallbackGets" /\ pc'[p] = "done"
             /\ "fallbackGets" \notin failed'[p]
             /\ keys[p] \cap DOMAIN fallback # {})
            => resp'[p].status = 200]_vars

\* a quota failure was answered with an analysis from the fallback log
C3_FallbackServed ==
  \E p \in Procs :
    /\ pc[p] = "done"
    /\ caught[p] # NoError
    /\ isQuotaError(caught[p])
    /\ failed[p] \cap {"fallbackKeys", "fallbackGets"} = {}
    /\ resp[p].status = 200
    /\ resp[p].via = "fallback"

\* C4: non-quota provider failure. A provider error that is not classified
\* as quota ends the request at once with 500 prediction_failed and no
\* analysis; the fallback log is enumerated, and a fallback analysis is
\* returned, only in requests whose provider error was classified as quota.
C4_NonQuotaFailsFast ==
  /\ [](\A p \in Procs :
          (\/ pc[p] \in {"fallbackKeys", "fallbackGets"}
           \/ pc[p] = "done" /\ resp[p].via = "fallback")
            => (caught[p] # NoError /\ isQuotaError(caught[p])))
  /\ [][\A p \in Procs :
          (pc[p] = "generate" /\ caught'[p] # NoError /\ ~isQuotaError(caught'[p]))
            => /\ pc'[p] = "done"
               /\ resp'[p].status = 500
               /\ resp'[p].error = "prediction_failed"
               /\ resp'[p].via = None
               /\ UNCHANGED <<cache, fallback>>]_vars

\* a provider error that is not a quota error was answered with 500
C4_ProviderFailed ==
  \E p \in Procs :
    /\ pc[p] = "done"
    /\ caught[p] \in ProviderErrors
    /\ ~isQuotaError(caught[p])
    /\ resp[p].status = 500

\* C5: fallback marking. A response carries isFallback = true exactly when
\* its analysis came through the similarity fallback; responses from a fresh
\* provider call or an exact-cache hit do not carry it.
C5_FallbackMarking ==
  \A p \in Procs :
    (pc[p] = "done" /\ resp[p].status = 200)
      => (resp[p].body.isFallback <=> resp[p].via = "fallback")

\* a response that came through the similarity fallback and carries the flag
C5_MarkedFallback ==
  \E p \in Procs :
    /\ pc[p] = "done"
    /\ resp[p].via = "fallback"
    /\ resp[p].body.isFallback

C7_KeepsNewestK ==
  \A m \in GEMINI_MODELS :
    (Quiescent /\ ~cleanupFailed /\ LongTicks = 0 /\ appended[m] > KeepLast)
      => /\ Cardinality(LogOf(m)) = KeepLast
         /\ \A k \in LogOf(m) : k > maxPruned[m]

\* C8 as stated: when setPrediction returns having written the exact-cache
\* entry, the fallback log holds an entry with the identical record.
C8_DualWrite ==
  [][\A p \in Procs :
       (/\ pc[p] \in {"setExact", "setFallback", "cleanupKeys", "cleanupDel"}
        /\ pc'[p] = "done"
        /\ CacheKey(p) \in DOMAIN cache'
        /\ cache'[CacheKey(p)].val = cached[p])
         => \E k \in DOMAIN fallback' : fallback'[k].val = cached[p]]_vars

\* C8, amended: setPrediction writes the exact-cache entry first and, when
\* that store set succeeds, attempts the fallback-log write; when the second
\* set succeeds too, the log entry holds the identical record (same
\* analysis, timestamp and fingerprint); nothing but these two store sets
\* adds or changes an entry of the exact cache or of the fallback log.
C8_DualWriteOnSuccess ==
  [][/\ \A p \in Procs :
          /\ (pc[p] = "setExact" /\ pc'[p] # pc[p] /\ "setExact" \notin failed'[p])
               => /\ pc'[p] = "setFallback"
                  /\ cache'[CacheKey(p)].val = cached[p]
                  /\ cached'[p] = cached[p]
          /\ (pc[p] = "setFallback" /\ pc'[p] # pc[p]
                /\ "setFallback" \notin failed'[p])
               => /\ fallback'[fallbackKey[p]].val = cached[p]
                  /\ fallback'[fallbackKey[p]].val.prediction = cached[p].prediction
                  /\ fallback'[fallbackKey[p]].val.timestamp = cached[p].timestamp
                  /\ fallback'[fallbackKey[p]].val.dataHash = cached[p].dataHash
     /\ \A k \in DOMAIN fallback' :
          (k \notin DOMAIN fallback \/ fallback'[k] # fallback[k])
            => \E p \in Procs :
                 pc[p] = "setFallback" /\ pc'[p] = "cleanupKeys" /\ k = fallbackKey[p]
     /\ \A h \in DOMAIN cache' :
          (h \notin DOMAIN cache \/ cache'[h] # cache[h])
            => \E p \in Procs :
                 pc[p] = "setExact" /\ pc'[p] = "setFallback" /\ h = CacheKey(p)]_vars

\* a request whose two store sets succeeded: both twins are in the store
C8_TwinsWritten ==
  \E p \in Procs :
    /\ pc[p] = "done"
    /\ resp[p].via = "fresh"
    /\ failed[p] = {}
    /\ \E h \in DOMAIN cache, k \in DOMAIN fallback :
         /\ cache[h].val = fallback[k].val
         /\ cache[h].val.prediction = resp[p].body

\* C9: a failure of the key enumeration or of the deletion in
\* cleanupFallbackKeys changes nothing in the store (the exact entry and the
\* new log entry stay), reaches no catch of POST, and the request returns
\* the fresh analysis.
C9_CleanupFailureSwallowed ==
  [][\A p \in Procs :
       (pc[p] \in {"cleanupKeys", "cleanupDel"} /\ failed'[p] # failed[p])
         => /\ pc'[p] = "done"
            /\ resp'[p].status = 200
            /\ resp'[p].via = "fresh"
            /\ resp'[p].body = cached[p].prediction
            /\ caught'[p] = NoError
            /\ UNCHANGED <<cache, fallback>>]_vars

\* a request whose pruning deletion failed was answered with the fresh
\* analysis, and both entries it wrote are in the store
C9_DeletionFailed ==
  \E p \in Procs :
    /\ pc[p] = "done"
    /\ "cleanupDel" \in failed[p]
    /\ resp[p].via = "fresh"
    /\ \E h \in DOMAIN cache : cache[h].val.prediction = resp[p].body
    /\ \E k \in DOMAIN fallback : fallback[k].val.prediction = resp[p].body

\* C10: a store failure on getPrediction's read is a soft miss. The handler
\* goes on to the provider call in the state an ordinary miss leaves (nothing
\* caught, nothing returned, store untouched), and the request's outcome is
\* an analysis or the provider's own error, never a store error.
C10_SoftMiss ==
  /\ [](\A p \in Procs :
          (pc[p] = "done" /\ "get" \in failed[p])
            => \/ resp[p].status = 200 /\ caught[p] = NoError
               \/ resp[p].status = 200 /\ resp[p].via = "fallback"
               \/ caught[p] \in ProviderErrors /\ resp[p] = ErrorResponse(caught[p]))
  /\ [][\A p \in Procs :
          (pc[p] = "getPrediction" /\ "get" \in failed'[p])
            => /\ pc'[p] = "generate"
               /\ resp'[p] = NoResponse
               /\ caught'[p] = NoError
               /\ hash'[p] = hash[p]
               /\ modelName'[p] = modelName[p]
               /\ UNCHANGED <<cache, fallback>>]_vars

\* the read of a live exact-match entry failed and the handler is about to
\* call the provider
C10_ReadFailedOnLiveEntry ==
  \E p \in Procs :
    /\ pc[p] = "generate"
    /\ "get" \in failed[p]
    /\ CacheKey(p) \in DOMAIN cache

\* C11: store failure on the fallback path. When the provider failed with a
\* quota error and the store throws while the fallback entries are enumerated
\* (redis.keys) or read (redis.get), the request ends at that step with the
\* quota-exceeded outcome: status 429, error quota_exceeded, the provider's
\* quota message, no analysis; the store is left as it was.
C11_StoreFailureOnFallback ==
  [][\A p \in Procs :
       (pc[p] \in {"fallbackKeys", "fallbackGets"} /\ failed'[p] # failed[p])
         => /\ isQuotaError(caught[p])
            /\ pc'[p] = "done"
            /\ resp'[p].status = 429
            /\ resp'[p].error = "quota_exceeded"
            /\ resp'[p].message = QuotaMessage
            /\ resp'[p].via = None
            /\ UNCHANGED <<cache, fallback>>]_vars

\* a request whose provider call hit the quota was answered 429 after the
\* reads of a non-empty fallback log threw
C11_FallbackReadFailed ==
  \E p \in Procs :
    /\ pc[p] = "done"
    /\ "fallbackGets" \in failed[p]
    /\ isQuotaError(caught[p])
    /\ resp[p].status = 429
    /\ DOMAIN fallback # {}

\* the request bodies whose snapshot lacks an indicator
BadBodies == {b \in Bodies : b.json /\ ~HasAllIndicators(b.dashboardData)}

StepOf ==
  [us10yYield |-> 10, dxy |-> 100, highYieldSpread |-> 100,
   m2MoneySupply |-> 1000, crudeOil |-> 100, copperGoldRatio |-> 10,
   pmi |-> 100, putCallRatio |-> 100, bitcoin |-> 500 * 1000]

\* the field of the fingerprint an indicator is written to
FieldOf ==
  [us10yYield |-> "us10y", dxy |-> "dxy", highYieldSpread |-> "spread",
   m2MoneySupply |-> "m2", crudeOil |-> "oil", copperGoldRatio |-> "ratio",
   pmi |-> "pmi", putCallRatio |-> "vix", bitcoin |-> "btc"]

\* the multiple of step nearest to v, the upper one half-way
NearestMultiple(v, step) == ((2 * v + step) \div (2 * step)) * step

\* both snapshots round to the same value in every indicator
RoundAlike(a, b) ==
  \A n \in IndicatorNames :
    NearestMultiple(a[n], StepOf[n]) = NearestMultiple(b[n], StepOf[n])

Readable == {input.keys[i] : i \in 1..Len(input.keys)} \cap DOMAIN fallback

\* C15: empty-candidate safety. Whatever the current snapshot, when the
\* fallback log has no keys, or every enumerated key reads back as absent,
\* getBestMatchingPrediction returns null by one of its early returns: its
\* catch is not entered and calculateDynamicRanges (hence every range and
\* division) is not reached.
C15_EmptyCandidateSafety ==
  (output.stage = "returned" /\ Readable = {})
    => /\ ~output.found
       /\ ~output.threw
       /\ ~output.ranged

\* null was returned for a log whose keys were enumerated and all read back
\* as absent
C15_AllKeysReadAbsent ==
  /\ output.stage = "returned"
  /\ Len(input.keys) >= 2
  /\ Readable = {}
  /\ ~output.found

\* C16: single-candidate safety. When exactly one enumerated entry is read
\* back, getBestMatchingPrediction returns that entry for every current
\* snapshot, without entering its catch; the dynamic range is 0 for every
\* indicator, and the effective range is the positive minimum threshold.
C16_SingleCandidateSafety ==
  (output.stage = "returned" /\ Cardinality(Readable) = 1)
    => /\ output.found
       /\ output.key \in Readable
       /\ ~output.threw
       /\ output.ranged
       /\ \A k \in HashKeys :
            /\ output.dynamicRanges[k] = 0
            /\ Max2(output.dynamicRanges[k], minThresholds[k]) = minThresholds[k]
            /\ minThresholds[k] > 0

\* the only readable entry was returned for a snapshot it was not cached for
C16_SingleDistantCandidate ==
  /\ output.stage = "returned"
  /\ Cardinality(Readable) = 1
  /\ output.found
  /\ output.key \in Readable
  /\ fallback[output.key].val.dataHash # hashData(input.currentData)

\* the readable entries cached for the fingerprint of the current snapshot
Identical ==
  {k \in Readable : fallback[k].val.dataHash = hashData(input.currentData)}

ScoreOf(k, dynamicRanges) ==
  finalScore(hashData(input.currentData), fallback[k].val, dynamicRanges, now)

\* the dynamic ranges of the readable entries
ReadableRanges == calculateDynamicRanges({fallback[j].val : j \in Readable})

\* the place of key k in the enumeration
PlaceOf(k) == CHOOSE i \in 1..Len(input.keys) : input.keys[i] = k

\* C20: when some enumerated entry is read back, getBestMatchingPrediction
\* returns a readable entry whose finalScore (0.9 * similarity + 0.1 *
\* recency) no readable entry exceeds, and every readable entry enumerated
\* before it has a smaller finalScore: of several entries with the maximal
\* finalScore the one enumerated first is returned.
C20_MaximalFirstEnumerated ==
  (output.stage = "returned" /\ Readable # {})
    => /\ output.found
       /\ output.key \in Readable
       /\ LET ranges == ReadableRanges
              best == ScoreOf(output.key, ranges)
          IN \A k \in Readable :
               LET score == ScoreOf(k, ranges)
               IN /\ score <= best
                  /\ PlaceOf(k) < PlaceOf(output.key) => score < best
       /\ output.key \in BestMatches(hashData(input.currentData), Readable, now)

\* two entries for the same fingerprint with the same timestamp share the
\* maximal finalScore, and the one enumerated first was returned although
\* its key is the larger one
C20_TieFirstEnumerated ==
  /\ output.stage = "returned"
  /\ output.found
  /\ \E k \in Readable \ {output.key} :
       /\ fallback[k].val.timestamp = fallback[output.key].val.timestamp
       /\ fallback[k].val.dataHash = fallback[output.key].val.dataHash
       /\ ScoreOf(k, ReadableRanges) = ScoreOf(output.key, ReadableRanges)
       /\ PlaceOf(output.key) < PlaceOf(k)
       /\ k < output.key

\* the two requests of the race have been answered, both with an analysis
\* the provider produced for them
BothFresh(p, q) ==
  /\ p # q
  /\ requests = 2
  /\ pc[p] = "done" /\ resp[p].via = "fresh"
  /\ pc[q] = "done" /\ resp[q].via = "fresh"

\* the exact key of the writers' snapshot, and the log keys they added
RaceKey == hashData(SnapA)
RaceLogKeys == DOMAIN fallback \ (1..SeedCount)

\* C18 as stated: race tolerance. When two requests for the same model and
\* snapshot both miss and both get an analysis from the provider, then once
\* both are answered the exact key holds the record of one of the two
\* analyses, both requests succeeded, and the log has gained at most two
\* entries.
C18_RaceTolerance ==
  \A p, q \in Procs :
    BothFresh(p, q)
      => /\ resp[p].status = 200 /\ resp[q].status = 200
         /\ Cardinality(RaceLogKeys) <= 2
         /\ RaceKey \in DOMAIN cache
         /\ cache[RaceKey].val.prediction \in {resp[p].body, resp[q].body}

\* C18 amended: as C18, but the exact key holds one of the two records
\* provided the exact-cache write of at least one of the two requests
\* succeeded; and every exact-cache write that succeeds replaces the value
\* of the key by the writer's record with a fresh TTL (last write wins).
C18_RaceToleranceOnWrite ==
  /\ [](\A p, q \in Procs :
          BothFresh(p, q)
            => /\ resp[p].status = 200 /\ resp[q].status = 200
               /\ caught[p] = NoError /\ caught[q] = NoError
               /\ Cardinality(RaceLogKeys) <= 2
               /\ ("setExact" \notin failed[p] \/ "setExact" \notin failed[q])
                    => /\ RaceKey \in DOMAIN cache
                       /\ cache[RaceKey].val.dataHash = RaceKey
                       /\ cache[RaceKey].val.prediction \in {resp[p].body, resp[q].body})
  /\ [][\A p \in Procs :
          (pc[p] = "setExact" /\ pc'[p] = "setFallback")
            => cache'[CacheKey(p)] = [val |-> cached[p], exp |-> now + TTL_MS]]_vars

\* both requests missed without a store error, their analyses were produced
\* one millisecond apart, the exact key holds one of them and the log has
\* gained two entries
C18_BothMissedBothWrote ==
  \E p, q \in Procs :
    /\ BothFresh(p, q)
    /\ failed[p] = {} /\ failed[q] = {}
    /\ resp[p].body # resp[q].body
    /\ RaceKey \in DOMAIN cache
    /\ cache[RaceKey].val.prediction = resp[p].body
    /\ Cardinality(RaceLogKeys) = 2

\* the exact-cache key k is written in this step
WrittenNow(k) ==
  \E p \in Procs :
    pc[p] = "setExact" /\ pc'[p] = "setFallback" /\ CacheKey(p) = k

\* every exact-cache entry is younger than 24h
LiveEntries ==
  \A k \in DOMAIN cache : now < cache[k].exp /\ cache[k].exp <= now + TTL_MS

\* a write that returns replaces the record and restarts the TTL, and leaves
\* the other keys alone
WriteRestarts(p) ==
  (pc[p] = "setExact" /\ pc'[p] = "setFallback")
    => /\ cache'[CacheKey(p)] = [val |-> cached[p], exp |-> now + TTL_MS]
       /\ \A k \in DOMAIN cache' \ {CacheKey(p)} :
            k \in DOMAIN cache /\ cache'[k] = cache[k]

\* an entry that is not written stays as it is until 24h after its write,
\* and is gone from then on; no entry appears without a write
LivesForTTL ==
  \/ UNCHANGED <<now, cache>> /\ LiveEntries
  \/ /\ \A k \in DOMAIN cache :
          IF now' < cache[k].exp
          THEN (k \in DOMAIN cache' /\ cache'[k] = cache[k]) \/ WrittenNow(k)
          ELSE k \notin DOMAIN cache' \/ WrittenNow(k)
     /\ \A k \in DOMAIN cache' \ DOMAIN cache : WrittenNow(k)

WritingSteps == {"setExact", "setFallback", "cleanupKeys", "cleanupDel"}

\* C21: no partial write. A request writes to the store (exact entry,
\* fallback entry, pruning deletes) only after its provider call has returned
\* a prediction; a step of a request that is not in setPrediction leaves keys
\* and values of the store as they are, so a request whose provider call
\* fails or is never made (hit, invalid input) changes nothing.
C21_NoPartialWrite ==
  [][/\ \A p \in Procs :
          /\ (pc[p] \notin WritingSteps /\ pc'[p] # pc[p])
               => UNCHANGED <<cache, fallback>>
          /\ (pc[p] \notin WritingSteps /\ pc'[p] \in WritingSteps)
               => /\ pc[p] = "generate"
                  /\ pc'[p] = "setExact"
                  /\ caught'[p] = NoError
                  /\ cached'[p].prediction.generatedFor = hash[p]
          /\ (pc[p] \in WritingSteps /\ pc'[p] # pc[p])
               => pc'[p] \in WritingSteps \cup {"done"}
     /\ (now' = now /\ <<cache, fallback>>' # <<cache, fallback>>)
          => \E p \in Procs : pc[p] \in WritingSteps /\ pc'[p] # pc[p]]_vars

\* a request whose provider call failed has been answered after an earlier
\* request cached its analysis
C21_FailedAfterCached ==
  \E p \in Procs :
    /\ pc[p] = "done"
    /\ resp[p].status = 500
    /\ caught[p].instanceOfError
    /\ failed[p] = {}
    /\ \E k \in DOMAIN cache : cache[k].val.timestamp >= Epoch

\* the enumerated keys of reader p that still have a value
Remaining(p) == keys[p] \cap DOMAIN fallback

\* the response is the marked analysis of an entry that scores highest among
\* the remaining ones, ranges and scores taken from those only
BestOfRemaining(p, r) ==
  LET dynamicRanges == calculateDynamicRanges({fallback[j].val : j \in Remaining(p)})
      scores == {<<j, finalScore(hash[p], fallback[j].val, dynamicRanges, now)>> :
                   j \in Remaining(p)}
  IN /\ r.status = 200
     /\ r.via = "fallback"
     /\ \E best \in scores :
          /\ r.body = [fallback[best[1]].val.prediction EXCEPT !.isFallback = TRUE]
          /\ \A other \in scores : other[2] <= best[2]

\* C22 as stated: eviction racing with a fallback read. A key that was
\* enumerated and is deleted or expires before it is read counts as a miss,
\* selection goes on over the remaining candidates, the read never fails, and
\* it returns none only if no candidate remains.
C22_EvictionRace ==
  [][\A p \in Procs :
       (pc[p] = "fallbackGets" /\ pc'[p] # "fallbackGets")
         => /\ pc'[p] = "done"
            /\ IF Remaining(p) = {}
               THEN resp'[p].status = 429
               ELSE BestOfRemaining(p, resp'[p])]_vars

\* C22, amended: as stated whenever the reads themselves succeed; when a
\* read is rejected by the store the lookup returns none although candidates
\* remain, and the request ends in 429, never in 500.
C22_EvictionRaceOnRead ==
  [][\A p \in Procs :
       (pc[p] = "fallbackGets" /\ pc'[p] # "fallbackGets")
         => /\ pc'[p] = "done"
            /\ IF Remaining(p) = {} \/ "fallbackGets" \in failed'[p]
               THEN resp'[p].status = 429
               ELSE BestOfRemaining(p, resp'[p])]_vars

\* between the enumeration and the reads an enumerated key was pruned by
\* the writer, and others remain
C22_EnumeratedKeyPruned ==
  \E p \in Procs :
    /\ pc[p] = "fallbackGets"
    /\ \E k \in keys[p] \ DOMAIN fallback :
         k = maxPruned[DEFAULT_GEMINI_MODEL] /\ k + TTL_MS > now
    /\ Remaining(p) # {}

\* C23: every fallback-log entry is keyed by its record's timestamp: the
\* timestamp in the key of an entry equals the timestamp field of the record
\* stored under it.
C23_KeyedByTimestamp ==
  \A k \in DOMAIN fallback : fallback[k].val.timestamp = k

\* the fallback-log writes of this instance that succeeded
LogWrites == SumOver(appended, GEMINI_MODELS) - SeedCount

\* C24: one fallback-log entry per successful provider call. While the store
\* rejects no call, the M setPrediction calls that have written to the log
\* have created M distinct keys (none of them pruned or expired yet): no
\* call's entry overwrites another call's entry.
C24_DistinctLogKeys ==
  (requests = LogWrites /\ \A p \in Procs : failed[p] = {})
    => Cardinality(RaceLogKeys) = LogWrites

\* the awaits of getBestMatchingPrediction
FallbackSteps == {"fallbackKeys", "fallbackGets"}

\* C27: a fallback result is never cached. No record under an exact-cache
\* key or a fallback-log key is marked isFallback, and a request on the
\* similarity fallback writes nothing: it creates no exact entry for its
\* fingerprint and leaves the record and the expiry of every entry, the
\* matched one included, as they are.
C27_FallbackNeverCached ==
  /\ [](/\ \A k \in DOMAIN cache : ~cache[k].val.prediction.isFallback
        /\ \A k \in DOMAIN fallback : ~fallback[k].val.prediction.isFallback)
  /\ [][\A p \in Procs :
          (pc[p] \in FallbackSteps /\ pc'[p] # pc[p])
            => /\ pc'[p] \in FallbackSteps \cup {"done"}
               /\ cache' = cache
               /\ fallback' = fallback
               /\ (CacheKey(p) \in DOMAIN cache' <=> CacheKey(p) \in DOMAIN cache)]_vars

\* a request was served the analysis of a log entry cached for another
\* fingerprint; the entry is still stored unmarked and the request's own
\* fingerprint has no exact entry
C27_ServedNotCached ==
  \E p \in Procs :
    /\ pc[p] = "done"
    /\ resp[p].via = "fallback"
    /\ resp[p].body.isFallback
    /\ hashData(SnapA) \notin DOMAIN cache
    /\ \E k \in DOMAIN fallback :
         /\ fallback[k].val.prediction = [resp[p].body EXCEPT !.isFallback = FALSE]
         /\ fallback[k].val.dataHash # hashData(SnapA)
         /\ fallback[k].exp = fallback[k].val.timestamp + TTL_MS

\* the log writes that succeeded, those of earlier instances included; none
\* of them has expired while the clock has not reached the TTL
Written == SumOver(appended, GEMINI_MODELS)

\* the keys of the log newer than k
NewerThan(k) == {j \in DOMAIN fallback : j > k}

\* cleanupFallbackKeys picks a key only if 10 newer keys are in the
\* enumeration, and a key it deletes has 10 newer keys beside it
DeletesOldOnly(p) ==
  /\ (pc[p] = "cleanupKeys" /\ pc'[p] = "cleanupDel")
       => \A k \in keys'[p] : Cardinality(NewerThan(k)) >= KeepLast
  /\ (pc[p] = "cleanupDel" /\ pc'[p] # "cleanupDel")
       => \A k \in DOMAIN fallback \ DOMAIN fallback' :
            k \in keys[p] /\ Cardinality(NewerThan(k)) >= KeepLast

\* C28: pruning never deletes a recent entry. cleanupFallbackKeys deletes a
\* key only if at least 10 keys with a larger timestamp were in the
\* enumeration it acted on, a key it deletes still has 10 newer keys beside
\* it, and the log never holds fewer than min(10, unexpired entries written)
\* entries.
C28_PruningKeepsRecent ==
  /\ [](now < TTL_MS => Cardinality(DOMAIN fallback) >= Min2(KeepLast, Written))
  /\ [][\A p \in Procs : DeletesOldOnly(p)]_vars

\* C29: a store write failure after a successful provider call does not fail
\* the request. When either redis.set of setPrediction is rejected, the error
\* reaches no catch of POST, the request returns the fresh analysis unmarked,
\* the failed call and the calls after it write nothing, and the exact entry
\* is the only write a request whose second set failed has made.
C29_WriteFailureSwallowed ==
  [][\A p \in Procs :
       /\ (pc[p] \in {"setExact", "setFallback"} /\ failed'[p] # failed[p])
            => /\ pc'[p] = "done"
               /\ resp'[p].status = 200
               /\ resp'[p].via = "fresh"
               /\ resp'[p].body = cached[p].prediction
               /\ ~resp'[p].body.isFallback
               /\ caught'[p] = NoError
               /\ UNCHANGED <<cache, fallback, appended, maxPruned>>
       /\ (pc'[p] = "setFallback" /\ pc[p] # "setFallback")
            => /\ pc[p] = "setExact"
               /\ "setExact" \notin failed'[p]
               /\ fallback' = fallback]_vars

\* a request whose second store set failed was answered with the fresh
\* analysis; its exact entry is in the store, a log entry is not
C29_SecondSetFailed ==
  \E p \in Procs :
    /\ pc[p] = "done"
    /\ failed[p] = {"setFallback"}
    /\ resp[p].status = 200
    /\ resp[p].via = "fresh"
    /\ ~resp[p].body.isFallback
    /\ \E h \in DOMAIN cache : cache[h].val.prediction = resp[p].body
    /\ \A k \in DOMAIN fallback : fallback[k].val.prediction # resp[p].body

\* no response has arrived: the component has been loading since it mounted
\* and its controls have been disabled
Mounting == Cardinality(fetches) = Len(issued)

\* the model the initial request is to use
MountModel ==
  IF localStorage \in GEMINI_MODELS THEN localStorage ELSE DEFAULT_GEMINI_MODEL

\* C25: the initial mount of AIPrediction issues exactly one request, with
\* the model saved in localStorage when it is a valid one and the default
\* otherwise; isInitialMount keeps the effects from issuing a second one.
C25_SingleMountRequest ==
  Mounting
    => /\ Len(issued) <= 1
       /\ Len(issued) = 1 => issued[1] = MountModel
       /\ (effects = <<>> /\ component.rendered = component.selectedModel)
            => Len(issued) = 1

\* C30: client response ordering. Whenever loading is false and a prediction
\* is displayed, it is the response to the request issued last, the one for
\* the selected model.
C30_LatestResponseShown ==
  (~component.loading /\ component.error = None /\ component.prediction.id # 0)
    => /\ component.prediction.id = Len(issued)
       /\ component.prediction.modelName = component.selectedModel

\* the indicators whose lookup returned a comment
LookupHits == {i \in Indicators : input.cached[i] # 0}

\* C26: generateAIComments calls generateBatchComments at most once, with
\* exactly the indicators whose cache lookup missed, and not at all when every
\* lookup hit; the comments it returns hold every cache-hit comment unchanged,
\* whether the batch call returned or threw.
C26_OneBatchCallForMisses ==
  /\ Len(output.calls) <= 1
  /\ \A n \in DOMAIN output.calls :
       output.calls[n] = InOrder(Indicators \ LookupHits)
  /\ LookupHits = Indicators => output.calls = <<>>
  /\ output.at = "done"
       => \A i \in LookupHits : output.comments[i] = input.cached[i]

\* generateAIComments returned after a batch call that threw, with cache hits,
\* misses and a fallback comment in what it returns
C26_HitsKeptAfterFailedBatch ==
  /\ output.at = "done"
  /\ output.threw
  /\ Len(output.calls) = 1
  /\ LookupHits # {}
  /\ \E i \in Indicators \ LookupHits : output.comments[i] = LatestComment(i)

====
